---- MODULE Spec2Model ----
(***************************************************************************)
(* Worker lifecycle, liveness and provisioning-job bookkeeping of the      *)
(* coordinator in deadline_integration_simple.py (class                    *)
(* DeadlineIntegration).                                                   *)
(*                                                                         *)
(* Time is the coordinator's time.time(), counted in seconds.  The clock   *)
(* advances in steps of half the heartbeat timeout, so that record ages of *)
(* 0, timeout/2, timeout and 3*timeout/2 all occur.                        *)
(*                                                                         *)
(* A Python dict is modelled as a function on its key set; the order in    *)
(* which a dict is iterated is left open where the code iterates one, and  *)
(* the list get_active_workers returns is the set of its records.  Worker  *)
(* ids and job ids are strings, as the signatures declare.                 *)
(*                                                                         *)
(* lastOp and contact record what was called and what it returned; no      *)
(* operation of the program reads them.                                    *)
(***************************************************************************)
EXTENDS Integers, Sequences, FiniteSets, TLC

VARIABLES
    clock,             \* value time.time() returns at the coordinator
    deadline_command,  \* TRUE: the scheduler executable was located; FALSE: None
    claimed_workers,   \* dict worker_id -> worker record
    active_jobs,       \* dict job_id -> provisioning job record
    config,            \* the 'workers' list of the persisted configuration
    lastOp,            \* the call just processed: its name, arguments, result
    contact,           \* per worker id, the calls the coordinator has processed for it
    worker,            \* per worker process: its heartbeat threads and its last requests
    inflight           \* per request slot: the registry request a handler is serving

vars == <<clock, deadline_command, claimed_workers, active_jobs, config, lastOp, contact,
          worker, inflight>>

-----------------------------------------------------------------------------
(* Program constants and the bounds of the model *)

worker_heartbeat_timeout == 60

MaxTicks == 3

ClockStep == worker_heartbeat_timeout \div 2

WorkerIds == {"w1", "w2"}

Addrs == {[ip |-> "10.0.0.1", port |-> 8289], [ip |-> "10.0.0.2", port |-> 8290]}

NoJob == << >>

Hex24Atoms == {"j1", "j2"}

RegJobIds == {NoJob}

JobsWorkerIds == {"w1"}

\* job_id of a registration under SpecJobs: none, or the provisioning job
\* whose task started the worker (DEADLINE_JOB_ID).
JobsRegJobIds == {NoJob, <<"j1">>}

JobsAddrs == {[ip |-> "10.0.0.1", port |-> 8289]}

Counts == {3}

\* The largest count of a claim under SpecJobs.
MaxCount == 2

\* count of a claim under SpecJobs: the number of workers asked for.
JobsCounts == 1..MaxCount

MasterWs == "localhost:8188"

\* time.sleep(30) of the heartbeat thread of a worker process
heartbeat_interval == 30

\* The worker processes of SpecWorker, each named by its worker id.
WorkerProcs == {"w1"}

\* Most heartbeat threads a worker process starts, most failed heartbeat
\* attempts it counts.
MaxThreads == 2

MaxFailures == 2

-----------------------------------------------------------------------------
(* Results returned to the caller *)

Ok == [success |-> TRUE, error |-> ""]

Fail(msg) == [success |-> FALSE, error |-> msg]

NotFound == Fail("Worker not found")

\* The text every call that needs the scheduler returns without it.
ErrUnavailable == "Deadline not available"

Unavailable == Fail(ErrUnavailable)

-----------------------------------------------------------------------------
(* Dict helpers *)

\* dict.setdefault: an existing entry is kept.
DictSetDefault(d, k, v) == [x \in (DOMAIN d) \cup {k} |-> IF x \in DOMAIN d THEN d[x] ELSE v]

\* d[k] = v
DictSet(d, k, v) == [x \in (DOMAIN d) \cup {k} |-> IF x = k THEN v ELSE d[x]]

\* del d[k], d.pop(k, None)
DictDel(d, k) == [x \in (DOMAIN d) \ {k} |-> d[x]]

EmptyDict == [x \in {} |-> 0]

-----------------------------------------------------------------------------
(* The configuration store (utils/config.py): load_config returns the      *)
(* persisted document, save_config replaces it; either may raise.          *)

load_config == config

save_config(workers) == workers

RECURSIVE FirstIndex(_, _, _)
FirstIndex(workers, worker_id, i) ==
    IF i > Len(workers) THEN 0
    ELSE IF workers[i].id = worker_id THEN i
    ELSE FirstIndex(workers, worker_id, i + 1)

worker_config(worker_id, worker_ip, worker_port) ==
    [id |-> worker_id, host |-> worker_ip, port |-> worker_port,
     enabled |-> TRUE, source |-> "deadline"]

\* A snapshot helper that lets the exception of the store reach its caller.
SnapshotUpdatePropagates(storeOk) == ~storeOk

\* Whether a snapshot helper raises into register_worker or unregister_worker:
\* its own except clause catches every Exception of load_config and
\* save_config and only logs a warning.
SnapshotUpdateRaises(storeOk) == FALSE

\* A helper that appends the descriptor without looking for the id.
_add_worker_appends(worker_id, worker_ip, worker_port, storeOk) ==
    IF ~storeOk THEN config
    ELSE save_config(Append(load_config, worker_config(worker_id, worker_ip, worker_port)))

\* A helper that saves a list holding the new descriptor alone.
_add_worker_replaces_list(worker_id, worker_ip, worker_port, storeOk) ==
    IF ~storeOk THEN config
    ELSE save_config(<<worker_config(worker_id, worker_ip, worker_port)>>)

\* storeOk = FALSE: load_config or save_config raised; the exception is
\* swallowed and the persisted list stays as it was.
_add_worker_to_distributed_config(worker_id, worker_ip, worker_port, storeOk) ==
    IF ~storeOk THEN config
    ELSE LET workers == load_config
             existing_worker == FirstIndex(workers, worker_id, 1)
             entry == worker_config(worker_id, worker_ip, worker_port)
         IN  IF existing_worker # 0
             THEN save_config([workers EXCEPT ![existing_worker] = entry])
             ELSE save_config(Append(workers, entry))

_remove_worker_from_distributed_config(worker_id, storeOk) ==
    IF ~storeOk THEN config
    ELSE LET workers == load_config
             kept == SelectSeq(workers, LAMBDA w : w.id # worker_id)
         IN  IF Len(kept) < Len(workers) THEN save_config(kept) ELSE config

-----------------------------------------------------------------------------
(* The log of the calls processed for a worker id.  It is written from the *)
(* calls and the clock alone, never from what the registry holds:          *)
(*   none    : no register since the start or since the last unregister    *)
(*   live    : the last register or heartbeat of an unbroken series was    *)
(*             processed at time `at`, less than the timeout ago; beat     *)
(*             tells whether a heartbeat belongs to the series             *)
(*   expired : the timeout has passed since the last of them               *)
(*   swept   : expired, and get_active_workers has run since               *)

NoContact == [st |-> "none", at |-> 0, beat |-> FALSE]

Live(at, beat) == [st |-> "live", at |-> at, beat |-> beat]

Expired == [st |-> "expired", at |-> 0, beat |-> FALSE]

Swept == [st |-> "swept", at |-> 0, beat |-> FALSE]

ContactAfterHeartbeat(c, now) ==
    IF c.st \in {"live", "expired"} THEN Live(now, TRUE) ELSE c

ContactAfterSweep(c) == IF c.st = "expired" THEN Swept ELSE c

ContactAfterTick(c, now) ==
    IF c.st = "live" /\ now - c.at >= worker_heartbeat_timeout THEN Expired ELSE c

-----------------------------------------------------------------------------
(* Worker registry *)

\* A record stamped with a value the request carries instead of the clock.
worker_info_client_time(worker_id, worker_ip, worker_port, job_id, now) ==
    [id |-> worker_id, ip |-> worker_ip, port |-> worker_port,
     job_id |-> job_id, last_seen |-> 0]

worker_info(worker_id, worker_ip, worker_port, job_id, now) ==
    [id |-> worker_id, ip |-> worker_ip, port |-> worker_port,
     job_id |-> job_id, last_seen |-> now]

\* A liveness test that keeps a record whose age equals the timeout.
IsLiveInclusive(info, current_time) ==
    current_time - info.last_seen <= worker_heartbeat_timeout

\* The liveness test of the sweep for one record.
IsLive(info, current_time) ==
    current_time - info.last_seen < worker_heartbeat_timeout

\* Age of every record, as the sweep computes it.
Ages(cw, current_time) == [w \in DOMAIN cw |-> current_time - cw[w].last_seen]

\* get_active_workers: the records returned, and the registry it leaves.
LiveIds(cw, current_time) == {w \in DOMAIN cw : IsLive(cw[w], current_time)}

\* A sweep that returns the stale records with the live ones.
SweepResultAll(cw, current_time) == {cw[w] : w \in DOMAIN cw}

\* active_workers: the records appended in the loop.
SweepResult(cw, current_time) == {cw[w] : w \in LiveIds(cw, current_time)}

\* A sweep that filters its result but deletes nothing.
SweepKeepsAll(cw, current_time) == cw

SweepRegistry(cw, current_time) == [w \in LiveIds(cw, current_time) |-> cw[w]]

\* A heartbeat that leaves last_seen as it was.
RefreshNone(info, now) == info

\* worker_info["last_seen"] = time.time()
Refresh(info, now) == [info EXCEPT !.last_seen = now]

\* A register that drops the provisioning job its worker names.
register_worker_forgets_job(worker_id, addr, job_id, storeOk) ==
    /\ claimed_workers' = DictSet(claimed_workers, worker_id,
                                  worker_info(worker_id, addr.ip, addr.port, job_id, clock))
    /\ config' = _add_worker_to_distributed_config(worker_id, addr.ip, addr.port, storeOk)
    /\ lastOp' = [op |-> "register",
                  arg |-> [worker_id |-> worker_id, ip |-> addr.ip, port |-> addr.port,
                           stored |-> storeOk,
                           prior |-> IF worker_id \in DOMAIN claimed_workers
                                     THEN <<claimed_workers[worker_id].ip>> ELSE << >>],
                  res |-> IF SnapshotUpdateRaises(storeOk) THEN Fail("exception") ELSE Ok]
    /\ contact' = [contact EXCEPT ![worker_id] = Live(clock, FALSE)]
    /\ active_jobs' = DictDel(active_jobs, job_id)
    /\ UNCHANGED <<clock, deadline_command>>

register_worker(worker_id, addr, job_id, storeOk) ==
    /\ claimed_workers' = DictSet(claimed_workers, worker_id,
                                  worker_info(worker_id, addr.ip, addr.port, job_id, clock))
    /\ config' = _add_worker_to_distributed_config(worker_id, addr.ip, addr.port, storeOk)
    /\ lastOp' = [op |-> "register",
                  arg |-> [worker_id |-> worker_id, ip |-> addr.ip, port |-> addr.port,
                           stored |-> storeOk,
                           prior |-> IF worker_id \in DOMAIN claimed_workers
                                     THEN <<claimed_workers[worker_id].ip>> ELSE << >>],
                  res |-> IF SnapshotUpdateRaises(storeOk) THEN Fail("exception") ELSE Ok]
    /\ contact' = [contact EXCEPT ![worker_id] = Live(clock, FALSE)]
    /\ UNCHANGED <<clock, deadline_command, active_jobs>>

\* What the log keeps of a heartbeat: the id and the age the record had
\* when the heartbeat was processed (-1: no record).
HeartbeatArg(worker_id) ==
    [worker_id |-> worker_id,
     age |-> IF worker_id \in DOMAIN claimed_workers
             THEN clock - claimed_workers[worker_id].last_seen ELSE -1]

\* A heartbeat that creates the record it does not find.
worker_heartbeat_upsert(worker_id) ==
    /\ claimed_workers' = DictSet(claimed_workers, worker_id,
                                  worker_info(worker_id, "", 0, NoJob, clock))
    /\ lastOp' = [op |-> "heartbeat", arg |-> HeartbeatArg(worker_id), res |-> Ok]
    /\ contact' = [contact EXCEPT ![worker_id] = ContactAfterHeartbeat(@, clock)]
    /\ UNCHANGED <<clock, deadline_command, active_jobs, config>>

\* A heartbeat that turns away a record as old as the timeout.
worker_heartbeat_rejects_stale(worker_id) ==
    /\ IF worker_id \in DOMAIN claimed_workers /\ IsLive(claimed_workers[worker_id], clock)
       THEN /\ claimed_workers' = [claimed_workers EXCEPT ![worker_id] = Refresh(@, clock)]
            /\ lastOp' = [op |-> "heartbeat", arg |-> HeartbeatArg(worker_id), res |-> Ok]
       ELSE /\ claimed_workers' = claimed_workers
            /\ lastOp' = [op |-> "heartbeat", arg |-> HeartbeatArg(worker_id), res |-> NotFound]
    /\ contact' = [contact EXCEPT ![worker_id] = ContactAfterHeartbeat(@, clock)]
    /\ UNCHANGED <<clock, deadline_command, active_jobs, config>>

worker_heartbeat(worker_id) ==
    /\ IF worker_id \in DOMAIN claimed_workers
       THEN /\ claimed_workers' = [claimed_workers EXCEPT ![worker_id] = Refresh(@, clock)]
            /\ lastOp' = [op |-> "heartbeat", arg |-> HeartbeatArg(worker_id), res |-> Ok]
       ELSE /\ claimed_workers' = claimed_workers
            /\ lastOp' = [op |-> "heartbeat", arg |-> HeartbeatArg(worker_id), res |-> NotFound]
    /\ contact' = [contact EXCEPT ![worker_id] = ContactAfterHeartbeat(@, clock)]
    /\ UNCHANGED <<clock, deadline_command, active_jobs, config>>

\* An unregister that clears the snapshot of an id it does not find.
unregister_worker_cleans(worker_id, storeOk) ==
    /\ config' = _remove_worker_from_distributed_config(worker_id, storeOk)
    /\ IF worker_id \in DOMAIN claimed_workers
       THEN /\ claimed_workers' = DictDel(claimed_workers, worker_id)
            /\ lastOp' = [op |-> "unregister", arg |-> [worker_id |-> worker_id], res |-> Ok]
       ELSE /\ UNCHANGED claimed_workers
            /\ lastOp' = [op |-> "unregister", arg |-> [worker_id |-> worker_id], res |-> NotFound]
    /\ contact' = [contact EXCEPT ![worker_id] = NoContact]
    /\ UNCHANGED <<clock, deadline_command, active_jobs>>

unregister_worker(worker_id, storeOk) ==
    /\ IF worker_id \in DOMAIN claimed_workers
       THEN /\ claimed_workers' = DictDel(claimed_workers, worker_id)
            /\ config' = _remove_worker_from_distributed_config(worker_id, storeOk)
            /\ lastOp' = [op |-> "unregister",
                          arg |-> [worker_id |-> worker_id, stored |-> storeOk],
                          res |-> IF SnapshotUpdateRaises(storeOk)
                                  THEN Fail("exception") ELSE Ok]
       ELSE /\ UNCHANGED <<claimed_workers, config>>
            /\ lastOp' = [op |-> "unregister", arg |-> [worker_id |-> worker_id], res |-> NotFound]
    /\ contact' = [contact EXCEPT ![worker_id] = NoContact]
    /\ UNCHANGED <<clock, deadline_command, active_jobs>>

get_active_workers ==
    /\ claimed_workers' = SweepRegistry(claimed_workers, clock)
    /\ lastOp' = [op |-> "get_active_workers",
                  arg |-> [ages |-> Ages(claimed_workers, clock)],
                  res |-> SweepResult(claimed_workers, clock)]
    /\ contact' = [w \in WorkerIds |-> ContactAfterSweep(contact[w])]
    /\ UNCHANGED <<clock, deadline_command, active_jobs, config>>

\* A status that counts the records held before the sweep.
StatusClaimedCountAll(registry, now) == Cardinality(DOMAIN registry)

\* "claimed_workers": len(active_workers), active_workers being the list
\* get_active_workers returned.
StatusClaimedCount(registry, now) == Cardinality(SweepResult(registry, now))

\* A status that runs the liveness sweep before it looks for the scheduler.
get_worker_status_sweeps_first ==
    /\ claimed_workers' = SweepRegistry(claimed_workers, clock)
    /\ contact' = [w \in WorkerIds |-> ContactAfterSweep(contact[w])]
    /\ IF ~deadline_command
       THEN lastOp' = [op |-> "status", arg |-> [ages |-> EmptyDict],
                       res |-> [available |-> FALSE, error |-> ErrUnavailable,
                                claimed_workers |-> 0, active_jobs |-> 0,
                                active_workers |-> {}]]
       ELSE lastOp' = [op |-> "status",
                       arg |-> [ages |-> Ages(claimed_workers, clock)],
                       res |-> [available |-> TRUE, error |-> "",
                                claimed_workers |-> StatusClaimedCount(claimed_workers, clock),
                                active_jobs |-> Cardinality(DOMAIN active_jobs),
                                active_workers |-> SweepResult(claimed_workers, clock)]]
    /\ UNCHANGED <<clock, deadline_command, active_jobs, config>>

get_worker_status ==
    /\ IF ~deadline_command
       THEN /\ lastOp' = [op |-> "status", arg |-> [ages |-> EmptyDict],
                          res |-> [available |-> FALSE, error |-> ErrUnavailable,
                                   claimed_workers |-> 0, active_jobs |-> 0,
                                   active_workers |-> {}]]
            /\ UNCHANGED <<claimed_workers, contact>>
       ELSE /\ claimed_workers' = SweepRegistry(claimed_workers, clock)
            /\ lastOp' = [op |-> "status",
                          arg |-> [ages |-> Ages(claimed_workers, clock)],
                          res |-> [available |-> TRUE, error |-> "",
                                   claimed_workers |-> StatusClaimedCount(claimed_workers, clock),
                                   active_jobs |-> Cardinality(DOMAIN active_jobs),
                                   active_workers |-> SweepResult(claimed_workers, clock)]]
            /\ contact' = [w \in WorkerIds |-> ContactAfterSweep(contact[w])]
    /\ UNCHANGED <<clock, deadline_command, active_jobs, config>>

-----------------------------------------------------------------------------
(* Scheduler stdout and _extract_job_id.                                   *)
(*                                                                         *)
(* A stdout is the sequence of its whitespace-separated words, as          *)
(* str.split() yields them (single blanks between words); a word is a      *)
(* sequence of atoms.  The atom "JobID=" is that literal text, "Job", "ID", *)
(* ":" and "=" are those literal texts, an atom of Hex24Atoms is one run   *)
(* of 24 hexadecimal digits, any other atom is other text.  A job id is a  *)
(* sequence of atoms; the empty sequence is the empty string.              *)

Stdouts ==
    { << <<"Result=Success">>, <<"JobID=", "j1">> >>,
      << <<"JobID=", "j2">>, <<"JobID=", "j1">> >>,
      << <<"JobID=">>, <<"Job">>, <<"ID", ":">>, <<"j1">> >>,
      << <<"Result=Success">> >>,
      << <<"j1">> >>,
      << <<"Submitted">>, <<"Job">>, <<"ID", ":">>, <<"j2">> >>,
      << <<"Job">>, <<"ID", "=", "j1", "j2">> >> }

RECURSIVE FirstMarked(_, _)
FirstMarked(words, i) ==
    IF i > Len(words) THEN 0
    ELSE IF Len(words[i]) > 0 /\ words[i][1] = "JobID=" THEN i
    ELSE FirstMarked(words, i + 1)

\* The text of stdout, words separated by one blank (" ").
RECURSIVE Flatten(_)
Flatten(words) ==
    IF Len(words) = 0 THEN << >>
    ELSE IF Len(words) = 1 THEN words[1]
    ELSE words[1] \o <<" ">> \o Flatten(Tail(words))

Separators == {":", " ", "="}

\* End of the longest run of separator atoms starting at position p.
RECURSIVE SkipSeparators(_, _)
SkipSeparators(text, p) ==
    IF p <= Len(text) /\ text[p] \in Separators THEN SkipSeparators(text, p + 1) ELSE p

\* A pattern that matches any run of 24 hexadecimal digits.
MatchAtBare(text, p) == IF text[p] \in Hex24Atoms THEN p ELSE 0

\* re.search(r'Job ID[:\s=]+([a-f0-9]{24})') matched with "Job" at position p:
\* the position of the captured group, or 0.
MatchAt(text, p) ==
    IF /\ p + 3 <= Len(text)
       /\ text[p] = "Job" /\ text[p + 1] = " " /\ text[p + 2] = "ID"
       /\ text[p + 3] \in Separators
    THEN LET q == SkipSeparators(text, p + 3)
         IN  IF q <= Len(text) /\ text[q] \in Hex24Atoms THEN q ELSE 0
    ELSE 0

RECURSIVE RegexSearch(_, _)
RegexSearch(text, p) ==
    IF p > Len(text) THEN 0
    ELSE IF MatchAt(text, p) # 0 THEN MatchAt(text, p)
    ELSE RegexSearch(text, p + 1)

_extract_job_id(stdout) ==
    LET i == FirstMarked(stdout, 1)
        text == Flatten(stdout)
        q == RegexSearch(text, 1)
    IN  IF i # 0 THEN Tail(stdout[i])
        ELSE IF q # 0 THEN <<text[q]>>
        ELSE << >>

-----------------------------------------------------------------------------
(* Provisioning jobs *)

\* What subprocess.run does for -SubmitJob: it raises (timeout, OS error),
\* or completes with a return code and a stdout.
SubmitOutcomes ==
    {[kind |-> "raise", rc |-> 1, stdout |-> << >>],
     [kind |-> "exit", rc |-> 1, stdout |-> << >>]}
    \cup {[kind |-> "exit", rc |-> 0, stdout |-> s] : s \in Stdouts}

RegistrySubmitOutcomes ==
    {[kind |-> "exit", rc |-> 1, stdout |-> << >>],
     [kind |-> "exit", rc |-> 0, stdout |-> << <<"Result=Success">>, <<"JobID=", "j1">> >>]}

\* The record claim_workers stores.  Its submitted_at field, which no code
\* reads, is left out.
job_record(count, master_ws) ==
    [type |-> "distributed", count |-> count, master_ws |-> master_ws]

\* Job files that ask for the one frame 1 whatever the count.
_create_worker_job_files_single(count, master_ws) ==
    [job_info |-> [Plugin |-> "ComfyUI", TaskTimeoutMinutes |-> 0,
                   ConcurrentTasks |-> 1,
                   LimitConcurrentTasksToNumberOfCpus |-> FALSE,
                   MachineLimit |-> count,
                   Frames |-> [first |-> 1, last |-> 1],
                   ChunkSize |-> 1,
                   Environment |-> [DEADLINE_DIST_MODE |-> 1, COMFY_MASTER_WS |-> master_ws,
                                    COMFY_FORCE_NEW_INSTANCE |-> 1, COMFY_WORKER_MODE |-> 1]],
     plugin_info |-> [DistributedMode |-> TRUE, WorkerMode |-> TRUE,
                      ForceNewInstance |-> TRUE, UseExistingInstance |-> FALSE],
     workflow |-> "DeadlineWorkerRegistration"]

\* The three files of a submission: the keys of job_info.txt that shape the
\* job, plugin_info.txt and the one-node workflow.  Frames is the text
\* "1-{count}", kept as its two numbers.  Name, Priority, Pool and Group do
\* not shape the tasks and are left out.
_create_worker_job_files(count, master_ws) ==
    [job_info |-> [Plugin |-> "ComfyUI", TaskTimeoutMinutes |-> 0,
                   ConcurrentTasks |-> 1,
                   LimitConcurrentTasksToNumberOfCpus |-> FALSE,
                   MachineLimit |-> count,
                   Frames |-> [first |-> 1, last |-> count],
                   ChunkSize |-> 1,
                   Environment |-> [DEADLINE_DIST_MODE |-> 1, COMFY_MASTER_WS |-> master_ws,
                                    COMFY_FORCE_NEW_INSTANCE |-> 1, COMFY_WORKER_MODE |-> 1]],
     plugin_info |-> [DistributedMode |-> TRUE, WorkerMode |-> TRUE,
                      ForceNewInstance |-> TRUE, UseExistingInstance |-> FALSE],
     workflow |-> "DeadlineWorkerRegistration"]

\* No files: claim_workers returned before it wrote any.
NoFiles == << >>

\* A check that takes the empty job id for a job id.
TruthyAlways(job_id) == TRUE

\* `if job_id:`
Truthy(job_id) == job_id # << >>

ClaimResult(ok, job_id, msg) == [success |-> ok, job_id |-> job_id, error |-> msg]

\* The error texts of a failed claim_workers.  ErrSubmissionFailed is the
\* fixed head of "Deadline submission failed with code {returncode}: {stderr}".
ErrSubmissionFailed == "Deadline submission failed"

\* A missing job id reported with the text of a failed submission.
ErrNoJobIdAsFailed == "Deadline submission failed"

ErrNoJobId == "Job submitted but JobID not found in output"

\* A claim that submits a second time after a non-zero exit.
SubmitAttemptsRetry(outcome) ==
    IF outcome.kind = "exit" /\ outcome.rc # 0 THEN 2 ELSE 1

\* The -SubmitJob invocations of a claim that reaches the try block: the
\* one subprocess.run, in no loop.
SubmitAttempts(outcome) == 1

\* A claim that records the job before it tests the extracted id.
claim_workers_optimistic(count, master_ws, outcome) ==
    /\ IF ~deadline_command
       THEN /\ lastOp' = [op |-> "claim", arg |-> [count |-> count, outcome |-> outcome, ran |-> FALSE,
                                                   submits |-> 0, files |-> NoFiles],
                          res |-> ClaimResult(FALSE, << >>, ErrUnavailable)]
            /\ UNCHANGED active_jobs
       ELSE LET job_id == _extract_job_id(outcome.stdout)
                arg == [count |-> count, outcome |-> outcome, ran |-> TRUE,
                        submits |-> SubmitAttempts(outcome),
                        files |-> _create_worker_job_files(count, master_ws)]
            IN  IF outcome.kind = "raise"
                THEN /\ lastOp' = [op |-> "claim", arg |-> arg,
                                   res |-> ClaimResult(FALSE, << >>, "exception")]
                     /\ UNCHANGED active_jobs
                ELSE IF outcome.rc = 0
                THEN IF Truthy(job_id)
                     THEN /\ active_jobs' = DictSet(active_jobs, job_id, job_record(count, master_ws))
                          /\ lastOp' = [op |-> "claim", arg |-> arg,
                                        res |-> ClaimResult(TRUE, job_id, "")]
                     ELSE /\ active_jobs' = DictSet(active_jobs, job_id, job_record(count, master_ws))
                          /\ lastOp' = [op |-> "claim", arg |-> arg,
                                        res |-> ClaimResult(FALSE, << >>, ErrNoJobId)]
                ELSE /\ lastOp' = [op |-> "claim", arg |-> arg,
                                   res |-> ClaimResult(FALSE, << >>, ErrSubmissionFailed)]
                     /\ UNCHANGED active_jobs
    /\ UNCHANGED <<clock, deadline_command, claimed_workers, config, contact>>

claim_workers(count, master_ws, outcome) ==
    /\ IF ~deadline_command
       THEN /\ lastOp' = [op |-> "claim", arg |-> [count |-> count, outcome |-> outcome, ran |-> FALSE,
                                                   submits |-> 0, files |-> NoFiles],
                          res |-> ClaimResult(FALSE, << >>, ErrUnavailable)]
            /\ UNCHANGED active_jobs
       ELSE LET job_id == _extract_job_id(outcome.stdout)
                arg == [count |-> count, outcome |-> outcome, ran |-> TRUE,
                        submits |-> SubmitAttempts(outcome),
                        files |-> _create_worker_job_files(count, master_ws)]
            IN  IF outcome.kind = "raise"
                THEN /\ lastOp' = [op |-> "claim", arg |-> arg,
                                   res |-> ClaimResult(FALSE, << >>, "exception")]
                     /\ UNCHANGED active_jobs
                ELSE IF outcome.rc = 0
                THEN IF Truthy(job_id)
                     THEN /\ active_jobs' = DictSet(active_jobs, job_id, job_record(count, master_ws))
                          /\ lastOp' = [op |-> "claim", arg |-> arg,
                                        res |-> ClaimResult(TRUE, job_id, "")]
                     ELSE /\ lastOp' = [op |-> "claim", arg |-> arg,
                                        res |-> ClaimResult(FALSE, << >>, ErrNoJobId)]
                          /\ UNCHANGED active_jobs
                ELSE /\ lastOp' = [op |-> "claim", arg |-> arg,
                                   res |-> ClaimResult(FALSE, << >>, ErrSubmissionFailed)]
                     /\ UNCHANGED active_jobs
    /\ UNCHANGED <<clock, deadline_command, claimed_workers, config, contact>>

-----------------------------------------------------------------------------
(* The legacy coordinator, deadline_integration.py.  It keeps the same     *)
(* fields; of its stdout every word of the model stands on a line of its   *)
(* own.                                                                    *)

\* The positions of the text 'JobID=' in a line.
MarkerPositions(line) == {k \in DOMAIN line : line[k] = "JobID="}

\* line.split('JobID=')[1].strip(): the text between the first marker and
\* the next one, or the end of the line.
AfterFirstMarker(line) ==
    LET first == CHOOSE k \in MarkerPositions(line) : \A m \in MarkerPositions(line) : k <= m
        later == {m \in MarkerPositions(line) : m > first}
        stop == IF later = {} THEN Len(line) + 1
                ELSE CHOOSE k \in later : \A m \in later : k <= m
    IN  SubSeq(line, first + 1, stop - 1)

RECURSIVE FirstLineWithMarker(_, _)
FirstLineWithMarker(lines, i) ==
    IF i > Len(lines) THEN 0
    ELSE IF MarkerPositions(lines[i]) # {} THEN i
    ELSE FirstLineWithMarker(lines, i + 1)

\* _extract_job_id of the legacy coordinator
legacy_extract_job_id(stdout) ==
    LET i == FirstLineWithMarker(stdout, 1)
    IN  IF i # 0 THEN AfterFirstMarker(stdout[i]) ELSE <<"unknown">>

\* claim_workers of the legacy coordinator
legacy_claim_workers(count, master_ws, outcome) ==
    /\ IF ~deadline_command
       THEN /\ lastOp' = [op |-> "legacy_claim",
                          arg |-> [count |-> count, outcome |-> outcome, ran |-> FALSE],
                          res |-> ClaimResult(FALSE, << >>, "Deadline not available")]
            /\ UNCHANGED active_jobs
       ELSE LET job_id == legacy_extract_job_id(outcome.stdout)
                arg == [count |-> count, outcome |-> outcome, ran |-> TRUE]
            IN  IF outcome.kind = "raise"
                THEN /\ lastOp' = [op |-> "legacy_claim", arg |-> arg,
                                   res |-> ClaimResult(FALSE, << >>, "exception")]
                     /\ UNCHANGED active_jobs
                ELSE IF outcome.rc = 0
                THEN /\ active_jobs' = DictSet(active_jobs, job_id, job_record(count, master_ws))
                     /\ lastOp' = [op |-> "legacy_claim", arg |-> arg,
                                   res |-> ClaimResult(TRUE, job_id, "")]
                ELSE /\ lastOp' = [op |-> "legacy_claim", arg |-> arg,
                                   res |-> ClaimResult(FALSE, << >>, "Deadline submission failed")]
                     /\ UNCHANGED active_jobs
    /\ UNCHANGED <<clock, deadline_command, claimed_workers, config, contact>>

-----------------------------------------------------------------------------

\* The job_ids argument of release_workers: None (given = FALSE) or a list.
NoIds == [given |-> FALSE, ids |-> << >>]

Ids(ids) == [given |-> TRUE, ids |-> ids]

ReleaseArgs ==
    {NoIds, Ids(<< >>), Ids(<< <<"j1">> >>), Ids(<< <<"j3">> >>),
     Ids(<< <<"j1">>, <<"j1">> >>), Ids(<< <<"j2">>, <<"j1">> >>)}

RegistryReleaseArgs == {NoIds}

\* What subprocess.run does for one -DeleteJob: return code 0, a non-zero
\* return code, or an exception (timeout, OS error).
DeleteOutcomes == {"rc0", "rc1", "raise"}

\* All orders in which the keys S of a dict may be iterated.
Orders(S) ==
    {s \in [1..Cardinality(S) -> S] : \A i, j \in 1..Cardinality(S) : s[i] = s[j] => i = j}

\* A selection that does not look the ids up in active_jobs.
SelectedAll(job_ids) == job_ids

\* jobs_to_release for an explicit list of ids.
SelectedIds(job_ids) == SelectSeq(job_ids, LAMBDA jid : jid \in DOMAIN active_jobs)

\* The keys release_workers selects when no ids are given.
DistributedJobs == {jid \in DOMAIN active_jobs : active_jobs[jid].type = "distributed"}

ReleaseResult(ok, released_count, msg) ==
    [success |-> ok, released_jobs |-> released_count, counted |-> ok, error |-> msg]

\* A confirmation that takes any completed -DeleteJob for a cancellation.
ConfirmedAny(out) == out # "raise"

\* `if result.returncode == 0:`
Confirmed(out) == out = "rc0"

\* The loop over jobs_to_release from position i on: outs[i] is what the
\* i-th -DeleteJob does.  Yields the dict, the result and the -DeleteJob
\* calls made.
RECURSIVE ReleaseLoop(_, _, _, _, _, _)
ReleaseLoop(jobs, outs, i, aj, released_count, calls) ==
    IF i > Len(jobs)
    THEN [aj |-> aj, res |-> ReleaseResult(TRUE, released_count, ""), calls |-> calls]
    ELSE LET call == [jid |-> jobs[i], out |-> outs[i]]
         IN  IF outs[i] = "raise"
             THEN [aj |-> aj, res |-> ReleaseResult(FALSE, 0, "exception"),
                   calls |-> Append(calls, call)]
             ELSE IF Confirmed(outs[i])
             THEN ReleaseLoop(jobs, outs, i + 1, DictDel(aj, jobs[i]),
                              released_count + 1, Append(calls, call))
             ELSE ReleaseLoop(jobs, outs, i + 1, aj, released_count, Append(calls, call))

release_workers(job_ids) ==
    /\ IF ~deadline_command
       THEN /\ lastOp' = [op |-> "release", arg |-> job_ids, calls |-> << >>,
                          res |-> ReleaseResult(FALSE, 0, "Deadline not available")]
            /\ UNCHANGED active_jobs
       ELSE \E jobs_to_release \in
                   (IF job_ids.given /\ job_ids.ids # << >>
                    THEN {SelectedIds(job_ids.ids)}
                    ELSE Orders(DistributedJobs)) :
               \E outs \in [1..Len(jobs_to_release) -> DeleteOutcomes] :
                   LET r == ReleaseLoop(jobs_to_release, outs, 1, active_jobs, 0, << >>)
                   IN  /\ active_jobs' = r.aj
                       /\ lastOp' = [op |-> "release", arg |-> job_ids,
                                     calls |-> r.calls, res |-> r.res]
    /\ UNCHANGED <<clock, deadline_command, claimed_workers, config, contact>>

\* The job_id argument of the legacy release_workers: None or the empty
\* string (<< >>), or one id.
LegacyJobIds == {<< >>, <<"j1">>, <<"unknown">>}

\* release_workers of the legacy coordinator: one id or every distributed
\* job, then the same loop.
legacy_release_workers(job_id) ==
    /\ IF ~deadline_command
       THEN /\ lastOp' = [op |-> "legacy_release", arg |-> job_id, calls |-> << >>,
                          res |-> ReleaseResult(FALSE, 0, "Deadline not available")]
            /\ UNCHANGED active_jobs
       ELSE \E jobs_to_release \in
                   (IF job_id # << >>
                    THEN {IF job_id \in DOMAIN active_jobs THEN <<job_id>> ELSE << >>}
                    ELSE Orders(DistributedJobs)) :
               \E outs \in [1..Len(jobs_to_release) -> DeleteOutcomes] :
                   LET r == ReleaseLoop(jobs_to_release, outs, 1, active_jobs, 0, << >>)
                   IN  /\ active_jobs' = r.aj
                       /\ lastOp' = [op |-> "legacy_release", arg |-> job_id,
                                     calls |-> r.calls, res |-> r.res]
    /\ UNCHANGED <<clock, deadline_command, claimed_workers, config, contact>>

-----------------------------------------------------------------------------
(* time.time() moving on between two calls *)

Tick ==
    /\ clock + ClockStep <= MaxTicks * ClockStep
    /\ clock' = clock + ClockStep
    /\ lastOp' = [op |-> "tick", arg |-> << >>, res |-> Ok]
    /\ contact' = [w \in WorkerIds |-> ContactAfterTick(contact[w], clock + ClockStep)]
    /\ UNCHANGED <<deadline_command, claimed_workers, active_jobs, config>>

-----------------------------------------------------------------------------
(* The worker process: the DeadlineWorkerRegistration node and the         *)
(* heartbeat threads it starts.                                            *)
(*                                                                         *)
(* worker[p] holds, for the process whose worker id is p,                  *)
(*   threads : the heartbeat threads running in it                         *)
(*   due     : their time.sleep(30) has returned and the heartbeat of this *)
(*             tick is not yet attempted                                   *)
(*   reg     : how the last execution of the node's register_worker ended  *)
(*   answer  : how the last heartbeat attempt ended ("ok" and "notfound"   *)
(*             are the two bodies of a 200 answer, which the thread does   *)
(*             not read)                                                   *)
(*   failed  : the heartbeat attempts that ended without a 200 answer      *)
(* The threads of a process start on the clock's grid, so they sleep and   *)
(* wake together and send the same request; one step stands for the        *)
(* attempt of all of them.                                                 *)

NoThreads == [threads |-> 0, due |-> FALSE, reg |-> "none", answer |-> "none", failed |-> 0]

\* What the POST /deadline/register_worker of the node meets:
\*   unreachable : requests.post raises, the coordinator never saw the request
\*   timeout     : the coordinator processed it, the answer did not arrive
\*                 within 10 s and requests.post raises
\*   http_error  : an answer whose status is not 200
\*   ok_false    : status 200, body with success false
\*   ok_true     : status 200, body with success true
\* The coordinator of this program answers a processed register with ok_true;
\* the other answers are those of the network and of whatever listens at
\* master_host:master_port.
RegisterReplies == {"unreachable", "timeout", "http_error", "ok_false", "ok_true"}

\* The replies with which the coordinator has processed the register.
Processed(reply) == reply \in {"timeout", "ok_true"}

\* What the POST /deadline/worker_heartbeat of a heartbeat thread meets:
\* the coordinator's answer (status 200), a status that is not 200, or an
\* exception of requests.post (no connection, no answer within 5 s).
HeartbeatReplies == {"answered", "http_error", "raise"}

\* The message the node returns.
NodeResult(distributed_mode, reply) ==
    IF ~distributed_mode THEN "skipped"
    ELSE CASE reply = "ok_true" -> "registered"
           [] reply = "ok_false" -> "failed"
           [] reply = "http_error" -> "http_error"
           [] OTHER -> "error"

\* A node that starts the heartbeat on every 200 answer.
StartsHeartbeatOn200(distributed_mode, reply) ==
    distributed_mode /\ reply \in {"ok_true", "ok_false"}

\* The one path of the node's register_worker that calls _start_heartbeat:
\* distributed mode, status 200, result.get('success').
StartsHeartbeat(distributed_mode, reply) == distributed_mode /\ reply = "ok_true"

\* threading.Thread(target=heartbeat_thread, daemon=True).start()
_start_heartbeat(threads) == threads + 1

\* DeadlineWorkerRegistration.register_worker executed in process p.
node_register_worker(p, distributed_mode, addr, job_id, reply) ==
    /\ StartsHeartbeat(distributed_mode, reply) => worker[p].threads < MaxThreads
    /\ IF distributed_mode /\ Processed(reply)
       THEN register_worker(p, addr, job_id, TRUE)
       ELSE UNCHANGED <<clock, deadline_command, claimed_workers, active_jobs, config,
                        lastOp, contact>>
    /\ worker' = [worker EXCEPT ![p] =
                     [@ EXCEPT !.reg = NodeResult(distributed_mode, reply),
                               !.threads = IF StartsHeartbeat(distributed_mode, reply)
                                           THEN _start_heartbeat(@) ELSE @]]

\* A heartbeat thread that ends when an attempt fails.
ThreadsAfterFailure(threads, reply) == IF reply = "answered" THEN threads ELSE 0

\* The threads still looping after an attempt: `while True` holds the try,
\* whose except clause catches every Exception, and no branch breaks or returns.
ThreadsAfterAttempt(threads, reply) == threads

\* One pass of heartbeat_thread after its sleep: the POST and its outcome.
heartbeat_thread(p, reply) ==
    /\ worker[p].threads > 0
    /\ worker[p].due
    /\ reply # "answered" => worker[p].failed < MaxFailures
    /\ IF reply = "answered"
       THEN worker_heartbeat(p)
       ELSE UNCHANGED <<clock, deadline_command, claimed_workers, active_jobs, config,
                        lastOp, contact>>
    /\ worker' = [worker EXCEPT ![p] =
                     [@ EXCEPT !.due = FALSE,
                               !.threads = ThreadsAfterAttempt(@, reply),
                               !.answer = IF reply # "answered" THEN reply
                                          ELSE IF lastOp'.res.success THEN "ok"
                                          ELSE "notfound",
                               !.failed = IF reply = "answered" THEN @ ELSE @ + 1]]

\* heartbeat_interval seconds pass: time.time() moves on and the sleep of
\* every heartbeat thread returns.  The attempt of a tick is made before the
\* next tick.
WorkerTick ==
    /\ ClockStep = heartbeat_interval
    /\ \A p \in WorkerProcs : ~worker[p].due
    /\ Tick
    /\ worker' = [p \in WorkerProcs |->
                     [worker[p] EXCEPT !.due = worker[p].threads > 0]]

-----------------------------------------------------------------------------
(* The registry requests on the server's event loop.                       *)
(*                                                                         *)
(* Every endpoint is a coroutine of the one aiohttp event loop, and the    *)
(* endpoints are the only callers of the registry in the repository.  A    *)
(* handler is suspended at `await request.json()`; register_worker,        *)
(* worker_heartbeat, unregister_worker and get_active_workers are plain    *)
(* functions without an await, and get_worker_status awaits nothing, so    *)
(* from its first statement to its return a method keeps the loop.  Each   *)
(* method is taken in two steps, at the point where a second request would *)
(* do harm if it could run: between the test (or the copy of the items)    *)
(* and the write it guards.                                                *)
(*                                                                         *)
(* inflight[r] holds                                                       *)
(*   op     : the request ("none": the slot is free)                       *)
(*   pc     : "idle", "await" (handler suspended before the method),       *)
(*            "body" (the method has run its first statements), "done"     *)
(*   before : claimed_workers as the method found it                       *)
(*   found  : what its test gave (heartbeat, unregister: the id is a key;  *)
(*            status: the ids it found live)                               *)
(*   raced  : another request was in flight while this one ran             *)
(*   res    : the result returned; workers are the records of a status     *)

Slots == {"r1", "r2"}

LoopOps == {"register", "heartbeat", "unregister", "status"}

\* The worker id and address every request of SpecLoop is about.
LoopId == "w1"

LoopAddr == [ip |-> "10.0.0.1", port |-> 8289]

LoopResult(result, workers) ==
    [success |-> result.success, error |-> result.error, workers |-> workers]

NoRequest ==
    [op |-> "none", pc |-> "idle", before |-> EmptyDict, found |-> {}, raced |-> FALSE,
     since |-> 0, res |-> LoopResult(Ok, {})]

\* An event loop on which a method can be suspended between its statements.
YieldsInBody(pc) == TRUE

\* The points at which a handler gives the event loop to another: every
\* one but the inside of the method.
Yields(pc) == pc # "body"

\* No other handler holds the event loop.
LoopFree(r) == \A s \in Slots \ {r} : Yields(inflight[s].pc)

\* The handler of a new request starts and is suspended reading its body.
endpoint_receive(r, op) ==
    /\ inflight[r].pc \in {"idle", "done"}
    /\ LoopFree(r)
    /\ inflight' = [inflight EXCEPT ![r] = [NoRequest EXCEPT !.op = op, !.pc = "await"]]
    /\ UNCHANGED <<clock, deadline_command, claimed_workers, active_jobs, config,
                   lastOp, contact>>

\* The first statements of the method: register_worker writes the record,
\* worker_heartbeat and unregister_worker test `worker_id in
\* self.claimed_workers`, get_active_workers copies the items and compares
\* their age (a status call without the scheduler executable returns before).
endpoint_enter(r) ==
    LET q == inflight[r]
    IN  /\ q.pc = "await"
        /\ LoopFree(r)
        /\ claimed_workers' =
              IF q.op = "register"
              THEN DictSet(claimed_workers, LoopId,
                           worker_info(LoopId, LoopAddr.ip, LoopAddr.port, NoJob, clock))
              ELSE claimed_workers
        /\ inflight' =
              [s \in Slots |->
                 IF s = r
                 THEN [q EXCEPT !.pc = "body",
                                !.before = claimed_workers,
                                !.found = IF q.op = "status" /\ deadline_command
                                          THEN LiveIds(claimed_workers, clock)
                                          ELSE IF q.op = "status"
                                          THEN DOMAIN claimed_workers
                                          ELSE DOMAIN claimed_workers \cap {LoopId},
                                !.raced = q.raced \/ \E t \in Slots \ {r} :
                                             inflight[t].pc \in {"await", "body"}]
                 ELSE IF inflight[s].pc \in {"await", "body"}
                      THEN [inflight[s] EXCEPT !.raced = TRUE]
                      ELSE inflight[s]]
        /\ UNCHANGED <<clock, deadline_command, active_jobs, config, lastOp, contact>>

\* A sweep that leaves out of its result the records it finds stale and
\* deletes none.
StaleIdsKept(q) == {}

\* The ids the sweep found stale and deletes.
StaleIds(q) == DOMAIN q.before \ q.found

\* The rest of the method and its return.  A `del` or an item assignment
\* on a key that is gone raises KeyError, which the except clause of the
\* method turns into a failure result.
endpoint_return(r) ==
    LET q == inflight[r]
        present == LoopId \in DOMAIN claimed_workers
        done(res) == [inflight EXCEPT ![r] =
                         [NoRequest EXCEPT !.op = q.op, !.pc = "done", !.raced = q.raced,
                                           !.res = res]]
    IN  /\ q.pc = "body"
        /\ LoopFree(r)
        /\ CASE q.op = "register" ->
                  /\ config' = _add_worker_to_distributed_config(
                                    LoopId, LoopAddr.ip, LoopAddr.port, TRUE)
                  /\ inflight' = done(LoopResult(Ok, {}))
                  /\ UNCHANGED claimed_workers
             [] q.op = "heartbeat" ->
                  /\ claimed_workers' =
                        IF q.found # {} /\ present
                        THEN [claimed_workers EXCEPT ![LoopId] = Refresh(@, clock)]
                        ELSE claimed_workers
                  /\ inflight' = done(LoopResult(IF q.found = {} THEN NotFound
                                                 ELSE IF present THEN Ok
                                                 ELSE Fail("KeyError"), {}))
                  /\ UNCHANGED config
             [] q.op = "unregister" ->
                  /\ claimed_workers' =
                        IF q.found # {} /\ present
                        THEN DictDel(claimed_workers, LoopId) ELSE claimed_workers
                  /\ config' =
                        IF q.found # {} /\ present
                        THEN _remove_worker_from_distributed_config(LoopId, TRUE)
                        ELSE config
                  /\ inflight' = done(LoopResult(IF q.found = {} THEN NotFound
                                                 ELSE IF present THEN Ok
                                                 ELSE Fail("KeyError"), {}))
             [] q.op = "status" ->
                  /\ claimed_workers' =
                        [w \in DOMAIN claimed_workers \ StaleIds(q) |-> claimed_workers[w]]
                  /\ inflight' =
                        done(IF ~deadline_command THEN LoopResult(Unavailable, {})
                             ELSE IF StaleIds(q) \subseteq DOMAIN claimed_workers
                             THEN LoopResult(Ok, {IF w \in DOMAIN claimed_workers
                                                  THEN claimed_workers[w] ELSE q.before[w] :
                                                  w \in q.found})
                             ELSE LoopResult(Fail("KeyError"), {}))
                  /\ UNCHANGED config
        /\ UNCHANGED <<clock, deadline_command, active_jobs, lastOp, contact>>

\* time.time() moves on between two methods; a method takes no time.
LoopTick ==
    /\ \A s \in Slots : Yields(inflight[s].pc)
    /\ Tick
    /\ UNCHANGED inflight

-----------------------------------------------------------------------------
(* The worker identifier.  A string is the sequence of its characters;    *)
(* the empty sequence is an unset or empty environment variable, which    *)
(* `or` passes over.                                                       *)

\* socket.gethostname() of the machines of the model
Hostnames == {<<"h">>, <<"h", "-", "x">>, <<"g">>}

\* Values of DEADLINE_JOB_ID: unset, short ones, and two of nine characters
\* that differ in the first only.
JobIdValues ==
    {<< >>, <<"y">>, <<"x", "-", "y">>,
     <<"a", "1", "2", "3", "4", "5", "6", "7", "8">>,
     <<"b", "1", "2", "3", "4", "5", "6", "7", "8">>}

TaskIdValues == {<< >>, <<"1">>}

SlaveIdValues == {<< >>, <<"2">>}

\* The environment of a worker process, as far as _get_worker_id reads it.
Environs ==
    [DEADLINE_TASK_ID : TaskIdValues, DEADLINE_WORKER_ID : {<< >>},
     DEADLINE_SLAVE_ID : SlaveIdValues, DEADLINE_JOB_ID : JobIdValues,
     DEADLINE_JOBID : {<< >>}]

\* a or b
OrElse(a, b) == IF a # << >> THEN a ELSE b

\* task_id and job_id as _get_worker_id takes them from the environment
EnvTaskId(environ) ==
    OrElse(environ.DEADLINE_TASK_ID,
           OrElse(environ.DEADLINE_WORKER_ID,
                  OrElse(environ.DEADLINE_SLAVE_ID, <<"w", "1">>)))

EnvJobId(environ) ==
    OrElse(environ.DEADLINE_JOB_ID,
           OrElse(environ.DEADLINE_JOBID, <<"u", "n", "k", "n", "o", "w", "n">>))

\* job_id[-8:] if len(job_id) > 8 else job_id
JobShort(job_id) ==
    IF Len(job_id) > 8 THEN SubSeq(job_id, Len(job_id) - 7, Len(job_id)) ELSE job_id

\* f"deadline-{hostname}-{job_short}-{task_id}"
_get_worker_id(hostname, environ) ==
    <<"deadline", "-">> \o hostname \o <<"-">> \o JobShort(EnvJobId(environ))
        \o <<"-">> \o EnvTaskId(environ)

\* Two worker processes compute their identifiers as they start.
get_worker_ids(h1, e1, h2, e2) ==
    /\ lastOp.op = "init"
    /\ lastOp' = [op |-> "_get_worker_id",
                  arg |-> <<[hostname |-> h1, job_id |-> EnvJobId(e1), task_id |-> EnvTaskId(e1)],
                            [hostname |-> h2, job_id |-> EnvJobId(e2), task_id |-> EnvTaskId(e2)]>>,
                  res |-> <<_get_worker_id(h1, e1), _get_worker_id(h2, e2)>>]
    /\ UNCHANGED <<clock, deadline_command, claimed_workers, active_jobs, config, contact>>

-----------------------------------------------------------------------------
(* The worker's heartbeat thread and the coordinator's event loop          *)
(* together.  claim_workers and release_workers are coroutines that call   *)
(* subprocess.run, which does not yield: from their first statement to     *)
(* their return they keep the one event loop, for as long as the           *)
(* subprocess runs, and a request that arrives meanwhile waits in its      *)
(* connection until a handler can be started for it.  A request waiting    *)
(* so has pc "queued"; `since` is the clock at which a blocking call       *)
(* began.  The 5 s after which the thread's requests.post gives up on the  *)
(* answer lengthen the thread's period and are left out; the request       *)
(* itself has arrived.                                                     *)

\* timeout=30 of the subprocess.run of claim_workers
submit_timeout == 30

\* timeout=10 of each subprocess.run of release_workers
delete_timeout == 10

BlockingOps == {"claim", "release"}

\* The longest a blocking call keeps the event loop: nothing without the
\* executable, one -SubmitJob, or one -DeleteJob for each job on record.
BlockingBudget(op) ==
    IF ~deadline_command THEN 0
    ELSE IF op = "claim" THEN submit_timeout
    ELSE delete_timeout * Cardinality(DOMAIN active_jobs)

SlotFree(r) == inflight[r].pc \in {"idle", "done"}

\* A heartbeat thread of process p, its sleep over, posts its heartbeat; the
\* request reaches the coordinator and waits for the event loop.
heartbeat_post(p, r) ==
    /\ worker[p].threads > 0
    /\ worker[p].due
    /\ SlotFree(r)
    /\ inflight' = [inflight EXCEPT ![r] = [NoRequest EXCEPT !.op = "heartbeat", !.pc = "queued"]]
    /\ worker' = [worker EXCEPT ![p] = [@ EXCEPT !.due = FALSE]]
    /\ UNCHANGED <<clock, deadline_command, claimed_workers, active_jobs, config,
                   lastOp, contact>>

\* A GET /deadline/status reaches the coordinator and waits for the event loop.
status_request(r) ==
    /\ SlotFree(r)
    /\ inflight' = [inflight EXCEPT ![r] = [NoRequest EXCEPT !.op = "status", !.pc = "queued"]]
    /\ UNCHANGED <<clock, deadline_command, claimed_workers, active_jobs, config,
                   lastOp, contact, worker>>

\* The event loop, free, starts the handler of a waiting request and runs
\* it to its return; of the waiting requests it takes any.
handle_queued(r) ==
    /\ inflight[r].pc = "queued"
    /\ LoopFree(r)
    /\ IF inflight[r].op = "heartbeat" THEN worker_heartbeat(LoopId) ELSE get_worker_status
    /\ inflight' = [inflight EXCEPT ![r] = NoRequest]
    /\ UNCHANGED worker

\* The handler of a claim or a release starts and reaches subprocess.run.
blocking_begin(r, op) ==
    /\ SlotFree(r)
    /\ LoopFree(r)
    /\ inflight' = [inflight EXCEPT ![r] =
                       [NoRequest EXCEPT !.op = op, !.pc = "body", !.since = clock]]
    /\ UNCHANGED <<clock, deadline_command, claimed_workers, active_jobs, config,
                   lastOp, contact, worker>>

\* subprocess.run returns or raises and the call runs to its return.
claim_end(r, count, outcome) ==
    /\ inflight[r].op = "claim"
    /\ inflight[r].pc = "body"
    /\ claim_workers(count, MasterWs, outcome)
    /\ inflight' = [inflight EXCEPT ![r] = NoRequest]
    /\ UNCHANGED worker

release_end(r, job_ids) ==
    /\ inflight[r].op = "release"
    /\ inflight[r].pc = "body"
    /\ release_workers(job_ids)
    /\ inflight' = [inflight EXCEPT ![r] = NoRequest]
    /\ UNCHANGED worker

\* The node of process p runs while the event loop is free; its POST is
\* answered at once.
composed_register(p) ==
    /\ \A s \in Slots : Yields(inflight[s].pc)
    /\ node_register_worker(p, TRUE, LoopAddr, NoJob, "ok_true")
    /\ UNCHANGED inflight

\* heartbeat_interval seconds pass.  Every thread whose sleep was over has
\* posted its heartbeat; the event loop is either kept by a blocking call
\* that can last that long, or free with no request left waiting.
ComposedTick ==
    /\ IF \E s \in Slots : inflight[s].pc = "body"
       THEN \A s \in Slots :
               inflight[s].pc = "body" =>
                   clock + ClockStep - inflight[s].since <= BlockingBudget(inflight[s].op)
       ELSE \A s \in Slots : inflight[s].pc # "queued"
    /\ WorkerTick
    /\ UNCHANGED inflight

-----------------------------------------------------------------------------

Init ==
    /\ clock = 0
    /\ deadline_command \in BOOLEAN
    /\ claimed_workers = EmptyDict
    /\ active_jobs = EmptyDict
    /\ config = << >>
    /\ lastOp = [op |-> "init", arg |-> << >>, res |-> Ok]
    /\ contact = [w \in WorkerIds |-> NoContact]
    /\ worker = [p \in WorkerProcs |-> NoThreads]
    /\ inflight = [r \in Slots |-> NoRequest]

(* The registry under every input of the model, the provisioning jobs    *)
(* under the inputs of RegistrySubmitOutcomes and RegistryReleaseArgs.   *)
Next ==
    \/ Tick /\ UNCHANGED <<worker, inflight>>
    \/ \E w \in WorkerIds, a \in Addrs, j \in RegJobIds, ok \in BOOLEAN :
           register_worker(w, a, j, ok) /\ UNCHANGED <<worker, inflight>>
    \/ \E w \in WorkerIds : worker_heartbeat(w) /\ UNCHANGED <<worker, inflight>>
    \/ \E w \in WorkerIds, ok \in BOOLEAN : unregister_worker(w, ok) /\ UNCHANGED <<worker, inflight>>
    \/ get_active_workers /\ UNCHANGED <<worker, inflight>>
    \/ get_worker_status /\ UNCHANGED <<worker, inflight>>
    \/ \E n \in Counts, o \in RegistrySubmitOutcomes :
           claim_workers(n, MasterWs, o) /\ UNCHANGED <<worker, inflight>>
    \/ \E ids \in RegistryReleaseArgs : release_workers(ids) /\ UNCHANGED <<worker, inflight>>

Spec == Init /\ [][Next]_vars

(* The provisioning jobs under every input of the model, the registry    *)
(* with the one worker and address of JobsWorkerIds and JobsAddrs.       *)
NextJobs ==
    \/ Tick /\ UNCHANGED <<worker, inflight>>
    \/ \E w \in JobsWorkerIds, a \in JobsAddrs, j \in JobsRegJobIds :
           register_worker(w, a, j, TRUE) /\ UNCHANGED <<worker, inflight>>
    \/ \E w \in JobsWorkerIds : worker_heartbeat(w) /\ UNCHANGED <<worker, inflight>>
    \/ \E w \in JobsWorkerIds : unregister_worker(w, TRUE) /\ UNCHANGED <<worker, inflight>>
    \/ get_active_workers /\ UNCHANGED <<worker, inflight>>
    \/ get_worker_status /\ UNCHANGED <<worker, inflight>>
    \/ \E n \in JobsCounts, o \in SubmitOutcomes :
           claim_workers(n, MasterWs, o) /\ UNCHANGED <<worker, inflight>>
    \/ \E ids \in ReleaseArgs : release_workers(ids) /\ UNCHANGED <<worker, inflight>>

SpecJobs == Init /\ [][NextJobs]_vars

(* One worker process and the coordinator's registry.  The node runs when *)
(* its workflow is executed, the heartbeat threads run on the clock; the  *)
(* sweep, the status call and unregister_worker come from other clients.  *)
NextWorker ==
    \/ WorkerTick /\ UNCHANGED inflight
    \/ \E p \in WorkerProcs, m \in BOOLEAN, a \in JobsAddrs, r \in RegisterReplies :
           node_register_worker(p, m, a, NoJob, r) /\ UNCHANGED inflight
    \/ \E p \in WorkerProcs, r \in HeartbeatReplies :
           heartbeat_thread(p, r) /\ UNCHANGED inflight
    \/ \E p \in WorkerProcs : unregister_worker(p, TRUE) /\ UNCHANGED <<worker, inflight>>
    \/ get_active_workers /\ UNCHANGED <<worker, inflight>>
    \/ get_worker_status /\ UNCHANGED <<worker, inflight>>

SpecWorker == Init /\ [][NextWorker]_vars

(* Two request slots of the event loop, serving register, heartbeat,      *)
(* unregister and status requests for one worker id.                     *)
NextLoop ==
    \/ LoopTick /\ UNCHANGED worker
    \/ \E r \in Slots, op \in LoopOps : endpoint_receive(r, op) /\ UNCHANGED worker
    \/ \E r \in Slots : endpoint_enter(r) /\ UNCHANGED worker
    \/ \E r \in Slots : endpoint_return(r) /\ UNCHANGED worker

SpecLoop == Init /\ [][NextLoop]_vars

(* The identifiers of two worker processes, for every pair of host names *)
(* and environments of the model.                                        *)
NextIds ==
    \E h1, h2 \in Hostnames, e1, e2 \in Environs :
        get_worker_ids(h1, e1, h2, e2) /\ UNCHANGED <<worker, inflight>>

SpecIds == Init /\ [][NextIds]_vars

(* The claims of the legacy coordinator under every submission outcome   *)
(* of the model.                                                         *)
NextLegacy ==
    \/ \E n \in Counts, o \in SubmitOutcomes :
          legacy_claim_workers(n, MasterWs, o) /\ UNCHANGED <<worker, inflight>>
    \/ \E j \in LegacyJobIds :
          legacy_release_workers(j) /\ UNCHANGED <<worker, inflight>>

SpecLegacy == Init /\ [][NextLegacy]_vars

(* The registry with a configuration store that works in every call and *)
(* that the coordinator alone writes.                                   *)
NextStore ==
    \/ Tick /\ UNCHANGED <<worker, inflight>>
    \/ \E w \in WorkerIds, a \in Addrs, j \in RegJobIds :
           register_worker(w, a, j, TRUE) /\ UNCHANGED <<worker, inflight>>
    \/ \E w \in WorkerIds : worker_heartbeat(w) /\ UNCHANGED <<worker, inflight>>
    \/ \E w \in WorkerIds : unregister_worker(w, TRUE) /\ UNCHANGED <<worker, inflight>>
    \/ get_active_workers /\ UNCHANGED <<worker, inflight>>
    \/ get_worker_status /\ UNCHANGED <<worker, inflight>>

SpecStore == Init /\ [][NextStore]_vars

(* One worker process with its heartbeat thread, the status requests of  *)
(* a client and the claims and releases that keep the event loop.        *)
NextComposed ==
    \/ ComposedTick
    \/ \E p \in WorkerProcs : composed_register(p)
    \/ \E p \in WorkerProcs, r \in Slots : heartbeat_post(p, r)
    \/ \E r \in Slots : status_request(r)
    \/ \E r \in Slots : handle_queued(r)
    \/ \E r \in Slots, op \in BlockingOps : blocking_begin(r, op)
    \/ \E r \in Slots, n \in Counts, o \in RegistrySubmitOutcomes : claim_end(r, n, o)
    \/ \E r \in Slots, ids \in RegistryReleaseArgs : release_end(r, ids)

SpecComposed == Init /\ [][NextComposed]_vars

(* A heartbeat thread is an operating-system thread that only sleeps and  *)
(* posts: while the process lives its sleep returns and its request is    *)
(* made.                                                                  *)
SpecWorkerFair ==
    /\ SpecWorker
    /\ WF_vars(WorkerTick /\ UNCHANGED inflight)
    /\ WF_vars(\E p \in WorkerProcs, r \in HeartbeatReplies :
                  heartbeat_thread(p, r) /\ UNCHANGED inflight)

-----------------------------------------------------------------------------
(* Properties of the worker registry, checked under Spec *)

\* A liveness sweep has just run: get_active_workers, or a status call with
\* the scheduler located.
SweepDone ==
    \/ lastOp.op = "get_active_workers"
    \/ lastOp.op = "status" /\ lastOp.res.available

\* The ids of the records that sweep returned.
ReturnedIds ==
    IF lastOp.op = "get_active_workers" THEN {r.id : r \in lastOp.res}
    ELSE {r.id : r \in lastOp.res.active_workers}

\* C1: a worker whose register and heartbeats were each processed less
\* than the timeout after the one before, the last of them less than the
\* timeout ago, is in claimed_workers, and a sweep that has just run
\* returned it.
Thm_C1_SpacedHeartbeatsKeepWorker ==
    \A w \in WorkerIds :
        contact[w].st = "live" =>
            /\ w \in DOMAIN claimed_workers
            /\ SweepDone => w \in ReturnedIds

Witness_C1 ==
    /\ lastOp.op = "get_active_workers"
    /\ clock > worker_heartbeat_timeout
    /\ \E w \in WorkerIds :
           /\ contact[w].st = "live" /\ contact[w].beat
           /\ w \in ReturnedIds

\* C2: once the timeout has passed since the last register or heartbeat
\* processed for a worker, the next sweep leaves it out of its result and
\* out of claimed_workers, and a heartbeat for it processed after that
\* sweep returns 'Worker not found'.
Thm_C2_SilentWorkerEvicted ==
    \A w \in WorkerIds :
        contact[w].st = "swept" =>
            /\ w \notin DOMAIN claimed_workers
            /\ SweepDone => w \notin ReturnedIds
            /\ lastOp.op = "heartbeat" /\ lastOp.arg.worker_id = w => lastOp.res = NotFound

Witness_C2 ==
    /\ lastOp.op = "heartbeat"
    /\ contact[lastOp.arg.worker_id].st = "swept"
    /\ lastOp.res = NotFound

\* C3 as stated: a sweep destroys a record exactly when its age is
\* strictly greater than the timeout; at an age equal to the timeout the
\* record is kept and returned.
Orig_C3_EvictedIffOlderThanTimeout ==
    SweepDone =>
        \A w \in DOMAIN lastOp.arg.ages :
            /\ w \notin DOMAIN claimed_workers <=> lastOp.arg.ages[w] > worker_heartbeat_timeout
            /\ w \notin ReturnedIds <=> lastOp.arg.ages[w] > worker_heartbeat_timeout

\* C3 amended: a sweep destroys a record exactly when its age is greater
\* than or equal to the timeout; at an age equal to the timeout the record
\* is evicted and not returned.
Thm_C3_EvictedIffAtLeastTimeout ==
    SweepDone =>
        \A w \in DOMAIN lastOp.arg.ages :
            /\ w \notin DOMAIN claimed_workers <=> lastOp.arg.ages[w] >= worker_heartbeat_timeout
            /\ w \notin ReturnedIds <=> lastOp.arg.ages[w] >= worker_heartbeat_timeout

Witness_C3 ==
    /\ SweepDone
    /\ \E w \in DOMAIN lastOp.arg.ages :
           /\ lastOp.arg.ages[w] = worker_heartbeat_timeout
           /\ w \notin DOMAIN claimed_workers
    /\ \E w \in DOMAIN lastOp.arg.ages :
           /\ lastOp.arg.ages[w] < worker_heartbeat_timeout
           /\ w \in DOMAIN claimed_workers

\* C4: register_worker always succeeds and leaves exactly the record of
\* its own arguments under the id: the key set becomes the old one plus
\* the id, so a register of an id already present (a second register, with
\* whatever address) adds no entry and replaces the address.
Thm_C4_RegisterIdempotent ==
    [][lastOp'.op = "register" =>
          LET w == lastOp'.arg.worker_id
          IN  /\ lastOp'.res.success
              /\ DOMAIN claimed_workers' = DOMAIN claimed_workers \cup {w}
              /\ claimed_workers'[w].id = w
              /\ claimed_workers'[w].ip = lastOp'.arg.ip
              /\ claimed_workers'[w].port = lastOp'.arg.port
              /\ w \in DOMAIN claimed_workers =>
                     Cardinality(DOMAIN claimed_workers') = Cardinality(DOMAIN claimed_workers)
              /\ \A v \in DOMAIN claimed_workers \ {w} :
                     claimed_workers'[v] = claimed_workers[v]]_vars

Witness_C4 ==
    /\ lastOp.op = "register"
    /\ lastOp.arg.prior # << >>
    /\ lastOp.arg.prior[1] # lastOp.arg.ip
    /\ lastOp.res.success
    /\ claimed_workers[lastOp.arg.worker_id].ip = lastOp.arg.ip

\* C5: a record appears in claimed_workers only by a successful
\* register_worker of its id; a successful unregister_worker of the id and
\* a sweep that does not return the id leave no record of it; no other
\* call adds a record.
Thm_C5_RecordOnlyBetweenRegisterAndRemoval ==
    [][\A w \in WorkerIds :
          /\ w \notin DOMAIN claimed_workers /\ w \in DOMAIN claimed_workers' =>
                 /\ lastOp'.op = "register"
                 /\ lastOp'.arg.worker_id = w
                 /\ lastOp'.res.success
          /\ lastOp'.op = "unregister" /\ lastOp'.arg.worker_id = w /\ lastOp'.res.success =>
                 w \notin DOMAIN claimed_workers'
          /\ SweepDone' /\ w \notin ReturnedIds' => w \notin DOMAIN claimed_workers'
          /\ contact'[w].st \in {"none", "swept"} => w \notin DOMAIN claimed_workers']_vars

Witness_C5 ==
    /\ lastOp.op = "unregister"
    /\ lastOp.res.success
    /\ lastOp.arg.worker_id \notin DOMAIN claimed_workers
    /\ claimed_workers # EmptyDict
    /\ active_jobs # EmptyDict

\* The ids that have a descriptor in the snapshot's worker list.
SnapshotIds(workers) == {workers[i].id : i \in DOMAIN workers}

\* C12: when a liveness sweep has just run, no worker it evicted (in the
\* registry before the sweep, not after) has a descriptor left in the snapshot.
Orig_C12_SweepMirrorsEvictionIntoSnapshot ==
    SweepDone =>
        \A w \in DOMAIN lastOp.arg.ages \ DOMAIN claimed_workers :
            w \notin SnapshotIds(config)

\* C13: whether or not the snapshot store works, register_worker returns
\* success and leaves claimed_workers with the record of the call and every
\* other record as it was; unregister_worker of a present id returns success
\* and leaves claimed_workers without that id and otherwise as it was.  The
\* outcome is the one of the call whose snapshot update succeeds.
Thm_C13_SnapshotFailureKeepsOutcome ==
    [][/\ lastOp'.op = "register" =>
            LET w == lastOp'.arg.worker_id
            IN  /\ lastOp'.res = Ok
                /\ DOMAIN claimed_workers' = DOMAIN claimed_workers \cup {w}
                /\ claimed_workers'[w].ip = lastOp'.arg.ip
                /\ claimed_workers'[w].port = lastOp'.arg.port
                /\ claimed_workers'[w].last_seen = clock
                /\ \A v \in DOMAIN claimed_workers \ {w} :
                       claimed_workers'[v] = claimed_workers[v]
       /\ (lastOp'.op = "unregister" /\ lastOp'.arg.worker_id \in DOMAIN claimed_workers) =>
            /\ lastOp'.res = Ok
            /\ claimed_workers' = DictDel(claimed_workers, lastOp'.arg.worker_id)]_vars

\* A register_worker has just returned success for a worker that is in
\* claimed_workers while the snapshot holds no descriptor of it: the store
\* failed during the call.
Witness_C13 ==
    /\ lastOp.op = "register"
    /\ lastOp.res.success
    /\ lastOp.arg.worker_id \in DOMAIN claimed_workers
    /\ lastOp.arg.worker_id \notin SnapshotIds(config)

\* C14: a status call with the scheduler located reports as claimed_workers
\* the number of records younger than the timeout at the call, which is the
\* number of records left after the call, and as active_jobs the number of
\* keys of active_jobs.
Thm_C14_StatusCounts ==
    (lastOp.op = "status" /\ lastOp.res.available) =>
        /\ lastOp.res.claimed_workers =
               Cardinality({w \in DOMAIN lastOp.arg.ages :
                               lastOp.arg.ages[w] < worker_heartbeat_timeout})
        /\ lastOp.res.claimed_workers = Cardinality(DOMAIN claimed_workers)
        /\ lastOp.res.active_jobs = Cardinality(DOMAIN active_jobs)

\* One provisioning job claimed, two workers registered, one of them stale
\* at the status call: the call reports one job and one worker.
Witness_C14 ==
    /\ lastOp.op = "status"
    /\ lastOp.res.available
    /\ Cardinality(DOMAIN lastOp.arg.ages) = 2
    /\ lastOp.res.claimed_workers = 1
    /\ lastOp.res.active_jobs = 1

\* C15: worker_heartbeat and unregister_worker of an id that is not a key of
\* claimed_workers return the failure 'Worker not found' and leave
\* claimed_workers, active_jobs and the snapshot as they were.
Thm_C15_UnknownIdNotFound ==
    [][(/\ lastOp'.op \in {"heartbeat", "unregister"}
        /\ lastOp'.arg.worker_id \notin DOMAIN claimed_workers) =>
           /\ ~lastOp'.res.success
           /\ lastOp'.res.error = "Worker not found"
           /\ UNCHANGED <<claimed_workers, active_jobs, config>>]_vars

\* unregister_worker has just answered 'Worker not found' for an id whose
\* descriptor is in the snapshot, with another worker registered and a
\* provisioning job active.
Witness_C15 ==
    /\ lastOp.op = "unregister"
    /\ lastOp.res = NotFound
    /\ lastOp.arg.worker_id \in SnapshotIds(config)
    /\ claimed_workers # EmptyDict
    /\ active_jobs # EmptyDict

\* C23: in every step, the record of an id for which the coordinator has
\* just processed a register or a successful heartbeat has last_seen equal
\* to the coordinator's clock, whatever the request carried; the record of
\* any other id keeps its last_seen; so last_seen is the clock at the most
\* recent register or heartbeat processed, and it never decreases while the
\* record exists.
Thm_C23_LastSeenIsCoordinatorClock ==
    [][\A w \in DOMAIN claimed_workers' :
          /\ IF /\ lastOp'.op \in {"register", "heartbeat"}
                /\ lastOp'.arg.worker_id = w
                /\ lastOp'.res.success
             THEN claimed_workers'[w].last_seen = clock
             ELSE /\ w \in DOMAIN claimed_workers
                  /\ claimed_workers'[w].last_seen = claimed_workers[w].last_seen
          /\ w \in DOMAIN claimed_workers =>
                claimed_workers'[w].last_seen >= claimed_workers[w].last_seen]_vars

\* A heartbeat has just been processed, later than the registration, for a
\* worker that another address registered again in between: last_seen is
\* the clock of the heartbeat.
Witness_C23 ==
    /\ lastOp.op = "heartbeat"
    /\ lastOp.res.success
    /\ clock = 2 * ClockStep
    /\ claimed_workers[lastOp.arg.worker_id].last_seen = clock
    /\ claimed_workers[lastOp.arg.worker_id].ip = "10.0.0.2"

\* The positions of the descriptors of worker_id in the persisted list.
DescriptorsOf(worker_id) == {i \in DOMAIN config : config[i].id = worker_id}

\* C28: when the store works, after register_worker(id, ip, port) the
\* persisted list holds exactly one descriptor with that id and it carries
\* the ip and port of that call; after an unregister_worker that found the
\* id it holds none.
Thm_C28_SnapshotHoldsOneLatestDescriptor ==
    /\ (lastOp.op = "register" /\ lastOp.arg.stored) =>
           /\ Cardinality(DescriptorsOf(lastOp.arg.worker_id)) = 1
           /\ \A i \in DescriptorsOf(lastOp.arg.worker_id) :
                  config[i] = worker_config(lastOp.arg.worker_id, lastOp.arg.ip,
                                            lastOp.arg.port)
    /\ (lastOp.op = "unregister" /\ lastOp.res.success /\ lastOp.arg.stored) =>
           DescriptorsOf(lastOp.arg.worker_id) = {}

\* A worker registers again from another address, the store working, while
\* the persisted list holds its descriptor and one of another worker.
Witness_C28 ==
    /\ lastOp.op = "register"
    /\ lastOp.arg.stored
    /\ lastOp.arg.prior # << >>
    /\ lastOp.arg.prior # <<lastOp.arg.ip>>
    /\ Len(config) = 2
    /\ DescriptorsOf(lastOp.arg.worker_id) # {}

\* C32: a heartbeat succeeds exactly when its id is a key of
\* claimed_workers as it is processed, whatever the age of the record, and
\* then sets last_seen to the clock; a sweep returns and keeps every record
\* younger than the timeout.  So a heartbeat that comes after the timeout
\* has passed and before any sweep succeeds, and the sweep that follows it
\* returns the record as live.
Thm_C32_HeartbeatSucceedsIffRecordPresent ==
    [][/\ lastOp'.op = "heartbeat" =>
             LET w == lastOp'.arg.worker_id
             IN  /\ lastOp'.res.success <=> w \in DOMAIN claimed_workers
                 /\ DOMAIN claimed_workers' = DOMAIN claimed_workers
                 /\ w \in DOMAIN claimed_workers => claimed_workers'[w].last_seen = clock
       /\ SweepDone' =>
             \A w \in DOMAIN claimed_workers :
                 clock - claimed_workers[w].last_seen < worker_heartbeat_timeout =>
                     /\ w \in ReturnedIds'
                     /\ w \in DOMAIN claimed_workers'
       /\ (lastOp.op = "heartbeat" /\ lastOp.res.success /\ SweepDone') =>
             lastOp.arg.worker_id \in ReturnedIds']_vars

\* A heartbeat has just succeeded on a record that was as old as the
\* timeout or older.
Witness_C32 ==
    /\ lastOp.op = "heartbeat"
    /\ lastOp.res.success
    /\ lastOp.arg.age >= worker_heartbeat_timeout
    /\ claimed_workers[lastOp.arg.worker_id].last_seen = clock

\* C34: when get_active_workers has just returned, the keys of
\* claimed_workers are the ids of the records it returned; every record
\* left is younger than the timeout, and every record that was younger
\* than the timeout is left.
Thm_C34_SweepLeavesExactlyTheReturned ==
    lastOp.op = "get_active_workers" =>
        /\ DOMAIN claimed_workers = ReturnedIds
        /\ lastOp.res = {claimed_workers[w] : w \in DOMAIN claimed_workers}
        /\ \A w \in DOMAIN claimed_workers :
               clock - claimed_workers[w].last_seen < worker_heartbeat_timeout
        /\ \A w \in DOMAIN lastOp.arg.ages :
               lastOp.arg.ages[w] < worker_heartbeat_timeout => w \in DOMAIN claimed_workers

\* get_active_workers found two records, removed the stale one and
\* returned the other.
Witness_C34 ==
    /\ lastOp.op = "get_active_workers"
    /\ Cardinality(DOMAIN lastOp.arg.ages) = 2
    /\ Cardinality(DOMAIN claimed_workers) = 1
    /\ ReturnedIds = DOMAIN claimed_workers

-----------------------------------------------------------------------------
(* Properties of the provisioning jobs, checked under SpecJobs *)

\* The step is a release_workers call that got past the availability check.
ReleaseRan == lastOp'.op = "release" /\ deadline_command

\* The job ids release_workers selects in the state before the call.
Selected(job_ids) ==
    IF job_ids.given /\ job_ids.ids # << >>
    THEN {job_ids.ids[i] : i \in DOMAIN job_ids.ids} \cap DOMAIN active_jobs
    ELSE DistributedJobs

\* The -DeleteJob calls of the release just made, for job id k.
CallsFor(op, k) == {i \in DOMAIN op.calls : op.calls[i].jid = k}

\* C6: the empty job id is never a key of active_jobs; a key is added only
\* by a claim_workers whose submission exited with code 0 and from whose
\* stdout _extract_job_id yields that key; a submission that exits with
\* code 0 and yields no job id returns a failure and changes nothing.
Thm_C6_JobsOnlyAfterConfirmedSubmission ==
    [][/\ << >> \notin DOMAIN active_jobs'
       /\ \A k \in DOMAIN active_jobs' \ DOMAIN active_jobs :
              /\ lastOp'.op = "claim"
              /\ lastOp'.arg.outcome.kind = "exit"
              /\ lastOp'.arg.outcome.rc = 0
              /\ k = _extract_job_id(lastOp'.arg.outcome.stdout)
              /\ lastOp'.res.success /\ lastOp'.res.job_id = k
       /\ ( /\ lastOp'.op = "claim" /\ lastOp'.arg.ran
            /\ lastOp'.arg.outcome.kind = "exit" /\ lastOp'.arg.outcome.rc = 0
            /\ _extract_job_id(lastOp'.arg.outcome.stdout) = << >> ) =>
              /\ ~lastOp'.res.success
              /\ active_jobs' = active_jobs]_vars

Witness_C6 ==
    /\ lastOp.op = "claim" /\ lastOp.arg.ran
    /\ lastOp.arg.outcome.kind = "exit" /\ lastOp.arg.outcome.rc = 0
    /\ lastOp.arg.outcome.stdout = << <<"j1">> >>
    /\ ~lastOp.res.success
    /\ <<"j1">> \notin DOMAIN active_jobs
    /\ <<"j2">> \in DOMAIN active_jobs

\* C7: a job id leaves active_jobs only in a release_workers call in which
\* a -DeleteJob for that id returned exit code 0; a job whose -DeleteJob
\* calls all returned a non-zero code stays; -DeleteJob is called for
\* selected jobs only, so a job that is not selected stays.
Thm_C7_RemovedOnlyWhenCancelled ==
    [][\A k \in DOMAIN active_jobs :
          /\ k \notin DOMAIN active_jobs' =>
                 /\ ReleaseRan
                 /\ \E i \in CallsFor(lastOp', k) : lastOp'.calls[i].out = "rc0"
          /\ ( /\ ReleaseRan
               /\ CallsFor(lastOp', k) # {}
               /\ \A i \in CallsFor(lastOp', k) : lastOp'.calls[i].out = "rc1" ) =>
                 /\ k \in DOMAIN active_jobs'
                 /\ active_jobs'[k] = active_jobs[k]
          /\ ReleaseRan /\ k \notin Selected(lastOp'.arg) =>
                 /\ CallsFor(lastOp', k) = {}
                 /\ k \in DOMAIN active_jobs']_vars

Witness_C7 ==
    /\ lastOp.op = "release"
    /\ \E i, j \in DOMAIN lastOp.calls :
           /\ lastOp.calls[i].out = "rc0" /\ lastOp.calls[i].jid \notin DOMAIN active_jobs
           /\ lastOp.calls[j].out = "rc1" /\ lastOp.calls[j].jid \in DOMAIN active_jobs

\* C8 as stated: whatever the -DeleteJob calls do, a release_workers call
\* with the scheduler located returns a released_jobs count, equal to the
\* number of job ids the call removed from active_jobs.
Orig_C8_CountEqualsRemoved ==
    [][ReleaseRan =>
          /\ lastOp'.res.counted
          /\ lastOp'.res.released_jobs =
                 Cardinality(DOMAIN active_jobs \ DOMAIN active_jobs')]_vars

\* C9 as stated: release_workers with no job ids (None or an empty list)
\* calls -DeleteJob exactly once for every active job of type
\* 'distributed' and for no other job, and removes no job of another type.
Orig_C9_ReleaseAllCancelsEveryDistributedJob ==
    [][ReleaseRan /\ ~(lastOp'.arg.given /\ lastOp'.arg.ids # << >>) =>
          \A k \in DOMAIN active_jobs :
              IF active_jobs[k].type = "distributed"
              THEN Cardinality(CallsFor(lastOp', k)) = 1
              ELSE CallsFor(lastOp', k) = {} /\ k \in DOMAIN active_jobs']_vars

\* C10: with the scheduler located, release_workers with a non-empty list
\* of job ids none of which is in active_jobs returns success with
\* released_jobs = 0, calls no -DeleteJob and leaves active_jobs as it was.
Thm_C10_ReleaseUnknownId ==
    [][( /\ ReleaseRan
         /\ lastOp'.arg.given /\ lastOp'.arg.ids # << >>
         /\ \A i \in DOMAIN lastOp'.arg.ids : lastOp'.arg.ids[i] \notin DOMAIN active_jobs ) =>
          /\ lastOp'.res.success
          /\ lastOp'.res.counted
          /\ lastOp'.res.released_jobs = 0
          /\ lastOp'.calls = << >>
          /\ active_jobs' = active_jobs]_vars

Witness_C10 ==
    /\ lastOp.op = "release" /\ deadline_command
    /\ lastOp.arg = Ids(<< <<"j3">> >>)
    /\ lastOp.res.success /\ lastOp.res.released_jobs = 0
    /\ lastOp.calls = << >>
    /\ DOMAIN active_jobs = {<<"j1">>, <<"j2">>}


\* C11: after a release during which the -DeleteJob of provisioning job J
\* returned 0 (J left active_jobs), no record of claimed_workers has job_id J.
Orig_C11_ReleaseRemovesWorkersOfJob ==
    [][ReleaseRan =>
         \A k \in DOMAIN active_jobs \ DOMAIN active_jobs' :
             \A w \in DOMAIN claimed_workers' : claimed_workers'[w].job_id # k]_vars


\* C16: the error of a failed claim_workers tells the kind of the failure:
\* it is 'Deadline not available' exactly when the executable was not
\* located, 'Deadline submission failed ...' exactly when the submission
\* exited with a non-zero code, and 'Job submitted but JobID not found in
\* output' exactly when it exited with code 0 and no job id was extracted.
Thm_C16_ClaimFailureKinds ==
    (lastOp.op = "claim" /\ ~lastOp.res.success) =>
        LET ran == lastOp.arg.ran
            exited == ran /\ lastOp.arg.outcome.kind = "exit"
        IN  /\ lastOp.res.error = "Deadline not available" <=> ~ran
            /\ lastOp.res.error = "Deadline submission failed"
                   <=> (exited /\ lastOp.arg.outcome.rc # 0)
            /\ lastOp.res.error = "Job submitted but JobID not found in output"
                   <=> (exited /\ lastOp.arg.outcome.rc = 0)

\* A submission has just exited with code 0 with a stdout holding no job
\* id, and claim_workers reported it as such.
Witness_C16 ==
    /\ lastOp.op = "claim"
    /\ ~lastOp.res.success
    /\ lastOp.arg.ran
    /\ lastOp.arg.outcome.kind = "exit"
    /\ lastOp.arg.outcome.rc = 0
    /\ lastOp.res.error = "Job submitted but JobID not found in output"


-----------------------------------------------------------------------------
(* Properties of the worker process, checked under SpecWorker and          *)
(* SpecWorkerFair                                                          *)

\* Process p makes the heartbeat attempt of this tick in the step.
Attempts(p) == worker[p].due /\ ~worker'[p].due

\* The attempt of process p in the step reaches the coordinator, which
\* answers it.
Reaches(p) == Attempts(p) /\ worker'[p].answer \in {"ok", "notfound"}

\* C17: a worker process whose last heartbeat was answered 'Worker not
\* found' registers again: the request of its next attempt that reaches the
\* coordinator is a register_worker, after which its id is in claimed_workers.
Orig_C17_NotFoundMakesWorkerReRegister ==
    [][\A p \in WorkerProcs :
          (worker[p].answer = "notfound" /\ Reaches(p)) =>
              /\ lastOp'.op = "register"
              /\ lastOp'.arg.worker_id = p
              /\ p \in DOMAIN claimed_workers']_vars

\* C18: no outcome of a heartbeat attempt ends a heartbeat thread; the
\* attempt of every tick is made; and after an attempt, failed or not, the
\* sleep returns and the next attempt is due, as long as the clock of the
\* model moves.
Thm_C18_HeartbeatLoopNeverEnds ==
    /\ [][\A p \in WorkerProcs : worker'[p].threads >= worker[p].threads]_vars
    /\ \A p \in WorkerProcs :
          worker[p].due ~> (~worker[p].due /\ worker[p].threads > 0)
    /\ \A p \in WorkerProcs :
          (worker[p].threads > 0 /\ ~worker[p].due /\ clock < MaxTicks * ClockStep)
              ~> worker[p].due

\* Two heartbeat attempts of a process have failed and a later one was
\* answered by the coordinator.
Witness_C18 ==
    \E p \in WorkerProcs :
        /\ worker[p].failed >= 2
        /\ worker[p].answer \in {"ok", "notfound"}
        /\ worker[p].threads > 0

\* C19: a worker process never runs more than one heartbeat thread.
Orig_C19_AtMostOneHeartbeatThread ==
    \A p \in WorkerProcs : worker[p].threads <= 1

\* C20: a heartbeat thread is started only by an execution of the node that
\* ends with the message of a registration (distributed mode, status 200,
\* success true) and whose register the coordinator has just processed with
\* success; an execution that is skipped or ends with an HTTP error, a
\* failure answer or an exception starts none.
Thm_C20_HeartbeatOnlyAfterConfirmedRegistration ==
    [][\A p \in WorkerProcs :
          /\ worker'[p].threads > worker[p].threads =>
                /\ worker'[p].reg = "registered"
                /\ lastOp'.op = "register"
                /\ lastOp'.arg.worker_id = p
                /\ lastOp'.res.success
                /\ p \in DOMAIN claimed_workers'
                /\ claimed_workers'[p].last_seen = clock
          /\ worker'[p].reg \in {"skipped", "error", "http_error", "failed"} =>
                worker'[p].threads = worker[p].threads]_vars

\* The node has started one heartbeat thread after a registration, and its
\* latest execution, answered with status 200 and success false, started
\* none.
Witness_C20 ==
    \E p \in WorkerProcs :
        /\ worker[p].reg = "failed"
        /\ worker[p].threads = 1


-----------------------------------------------------------------------------
(* Properties of concurrent registry requests, checked under SpecLoop *)

\* The method of request slot r returns in the step.
Returns(r) == inflight[r].pc = "body" /\ inflight'[r].pc = "done"

\* The result and the registry of a method run alone on a registry.
MethodAlone(op, registry, now) ==
    CASE op = "register" ->
           [res |-> LoopResult(Ok, {}),
            registry |-> DictSet(registry, LoopId,
                                 worker_info(LoopId, LoopAddr.ip, LoopAddr.port, NoJob, now))]
      [] op = "heartbeat" ->
           IF LoopId \in DOMAIN registry
           THEN [res |-> LoopResult(Ok, {}),
                 registry |-> [registry EXCEPT ![LoopId] = Refresh(@, now)]]
           ELSE [res |-> LoopResult(NotFound, {}), registry |-> registry]
      [] op = "unregister" ->
           IF LoopId \in DOMAIN registry
           THEN [res |-> LoopResult(Ok, {}), registry |-> DictDel(registry, LoopId)]
           ELSE [res |-> LoopResult(NotFound, {}), registry |-> registry]

\* C21: requests for one worker id that are in flight together take effect
\* one after the other: when the method of a register, heartbeat or
\* unregister request returns, no other request has written the registry
\* since the method found it, and its result and the registry it leaves
\* are those of the method run alone on the registry it found; the order
\* in which the methods run is a sequential order that gives every result
\* and the final registry.  A heartbeat whose method runs when the id is
\* gone, as after a successful unregister, fails and leaves no record.
Thm_C21_SameIdRequestsLinearizable ==
    [][\A r \in Slots :
          (Returns(r) /\ inflight[r].op \in {"register", "heartbeat", "unregister"}) =>
              LET q == inflight[r]
                  alone == MethodAlone(q.op, q.before, clock)
              IN  /\ claimed_workers = IF q.op = "register" THEN alone.registry ELSE q.before
                  /\ inflight'[r].res = alone.res
                  /\ claimed_workers' = alone.registry
                  /\ (q.op = "heartbeat" /\ LoopId \notin DOMAIN claimed_workers) =>
                         /\ ~inflight'[r].res.success
                         /\ LoopId \notin DOMAIN claimed_workers']_vars

\* An unregister and a heartbeat were in flight together; the unregister
\* returned success, the heartbeat 'Worker not found', and no record is left.
Witness_C21 ==
    \E r, s \in Slots :
        /\ inflight[r].op = "unregister" /\ inflight[r].pc = "done"
        /\ inflight[r].raced /\ inflight[r].res.success
        /\ inflight[s].op = "heartbeat" /\ inflight[s].pc = "done"
        /\ inflight[s].raced /\ inflight[s].res = LoopResult(NotFound, {})
        /\ LoopId \notin DOMAIN claimed_workers

\* The ids of a set of worker records.
RecordIds(records) == {info.id : info \in records}

\* C22: a status call with the scheduler located does not raise, returns
\* the records that were younger than the timeout when its sweep started,
\* and an id it found in the registry is in its result exactly when it is
\* in claimed_workers afterwards; a heartbeat either returns success and
\* leaves the record with last_seen at the coordinator's clock, or returns
\* 'Worker not found' and leaves no record.
Thm_C22_HeartbeatAndSweepDoNotInterleave ==
    [][\A r \in Slots :
          /\ (Returns(r) /\ inflight[r].op = "status" /\ deadline_command) =>
                /\ inflight'[r].res.success
                /\ inflight'[r].res.workers = SweepResult(inflight[r].before, clock)
                /\ \A w \in DOMAIN inflight[r].before :
                       w \in RecordIds(inflight'[r].res.workers)
                           <=> w \in DOMAIN claimed_workers'
          /\ (Returns(r) /\ inflight[r].op = "heartbeat") =>
                \/ /\ inflight'[r].res = LoopResult(Ok, {})
                   /\ LoopId \in DOMAIN claimed_workers'
                   /\ claimed_workers'[LoopId].last_seen = clock
                \/ /\ inflight'[r].res = LoopResult(NotFound, {})
                   /\ LoopId \notin DOMAIN claimed_workers']_vars

\* A status call and a heartbeat were in flight together; the sweep ran
\* first and evicted the worker, the heartbeat returned 'Worker not found'.
Witness_C22 ==
    \E r, s \in Slots :
        /\ inflight[r].op = "status" /\ inflight[r].pc = "done"
        /\ inflight[r].raced /\ inflight[r].res.success
        /\ inflight[r].res.workers = {}
        /\ inflight[s].op = "heartbeat" /\ inflight[s].pc = "done"
        /\ inflight[s].raced /\ inflight[s].res = LoopResult(NotFound, {})
        /\ clock >= worker_heartbeat_timeout
        /\ LoopId \in SnapshotIds(config)


-----------------------------------------------------------------------------
(* Properties of the worker identifier, checked under SpecIds *)

\* C24: two worker processes that differ in host name, job id or task id
\* obtain different identifiers from _get_worker_id.
Orig_C24_WorkerIdInjective ==
    lastOp.op = "_get_worker_id" =>
        (lastOp.arg[1] # lastOp.arg[2] => lastOp.res[1] # lastOp.res[2])


\* C25: a claim_workers call invokes -SubmitJob at most once, and not at all
\* exactly when the scheduler executable was not located; a submission that
\* exits with a non-zero code makes that same call return a failure.
Thm_C25_SubmissionNeverRetried ==
    lastOp.op = "claim" =>
        /\ lastOp.arg.submits <= 1
        /\ lastOp.arg.submits = 0 <=> ~deadline_command
        /\ (lastOp.arg.ran /\ lastOp.arg.outcome.kind = "exit" /\ lastOp.arg.outcome.rc # 0) =>
              /\ ~lastOp.res.success
              /\ lastOp.res.error = "Deadline submission failed"

\* A submission has just exited with a non-zero code: it was invoked once
\* and the call returned a failure.
Witness_C25 ==
    /\ lastOp.op = "claim"
    /\ lastOp.arg.ran
    /\ lastOp.arg.outcome.kind = "exit"
    /\ lastOp.arg.outcome.rc # 0
    /\ lastOp.arg.submits = 1
    /\ ~lastOp.res.success


\* A claim_workers has just run a submission that exited with code 0; its
\* result carries what _extract_job_id made of the stdout.
Extracted == lastOp.op = "claim" /\ lastOp.arg.ran /\ lastOp.arg.outcome.kind = "exit"
                 /\ lastOp.arg.outcome.rc = 0

\* The words of a stdout that start with the marker 'JobID='.
MarkedWords(stdout) == {i \in DOMAIN stdout : Len(stdout[i]) > 0 /\ stdout[i][1] = "JobID="}

Least(S) == CHOOSE i \in S : \A j \in S : i <= j

\* The 24-digit hexadecimal identifiers anywhere in a stdout.
HexIds(stdout) ==
    UNION {{stdout[i][k] : k \in DOMAIN stdout[i]} : i \in DOMAIN stdout} \cap Hex24Atoms

\* The positions q of the text at which 24 hexadecimal digits follow 'Job ID'
\* and one or more of ':', '=' and blank.
LabelledAt(text) ==
    {q \in DOMAIN text :
        /\ text[q] \in Hex24Atoms
        /\ \E p \in DOMAIN text :
              /\ p + 3 < q
              /\ text[p] = "Job" /\ text[p + 1] = " " /\ text[p + 2] = "ID"
              /\ \A k \in (p + 3)..(q - 1) : text[k] \in Separators}

-----------------------------------------------------------------------------
(* Properties of the legacy coordinator, checked under SpecLegacy *)

\* C27: a claim_workers of the legacy coordinator whose submission exits
\* with code 0 and whose stdout holds no 'JobID=' returns a failure and
\* leaves active_jobs as it was.
Orig_C27_LegacyClaimWithoutJobIdFails ==
    [][(/\ lastOp'.op = "legacy_claim"
        /\ lastOp'.arg.ran
        /\ lastOp'.arg.outcome.kind = "exit"
        /\ lastOp'.arg.outcome.rc = 0
        /\ \A i \in DOMAIN lastOp'.arg.outcome.stdout :
               MarkerPositions(lastOp'.arg.outcome.stdout[i]) = {}) =>
           /\ ~lastOp'.res.success
           /\ active_jobs' = active_jobs]_vars




-----------------------------------------------------------------------------
(* Properties of the submission files, checked under SpecJobs *)

\* The tasks the scheduler cuts a job into: the frames of the job's range
\* in chunks of ChunkSize, each chunk one task.
FrameTasks(job_info) ==
    {[first |-> f,
      last |-> IF f + job_info.ChunkSize - 1 < job_info.Frames.last
               THEN f + job_info.ChunkSize - 1 ELSE job_info.Frames.last] :
        f \in {x \in job_info.Frames.first..job_info.Frames.last :
                 (x - job_info.Frames.first) % job_info.ChunkSize = 0}}

\* C29: for every count N >= 1 the job info written for a claim describes
\* exactly N tasks, one for each frame 1..N, with chunk size 1, one
\* concurrent task per machine and a machine limit of N.
Thm_C29_JobFilesDescribeOneTaskPerWorker ==
    (lastOp.op = "claim" /\ lastOp.arg.ran /\ lastOp.arg.count >= 1) =>
        LET job_info == lastOp.arg.files.job_info
            N == lastOp.arg.count
        IN  /\ FrameTasks(job_info) = {[first |-> k, last |-> k] : k \in 1..N}
            /\ Cardinality(FrameTasks(job_info)) = N
            /\ job_info.ChunkSize = 1
            /\ job_info.ConcurrentTasks = 1
            /\ ~job_info.LimitConcurrentTasksToNumberOfCpus
            /\ job_info.MachineLimit = N

\* A claim for more than one worker wrote its files and was submitted.
Witness_C29 ==
    /\ lastOp.op = "claim"
    /\ lastOp.arg.ran
    /\ lastOp.arg.count > 1
    /\ lastOp.res.success
    /\ Cardinality(FrameTasks(lastOp.arg.files.job_info)) = lastOp.arg.count


-----------------------------------------------------------------------------
(* Failing claims, checked under SpecJobs *)

\* The inputs of the claim just processed make it fail: the executable was
\* not located, the submission raised (timeout or another exception), it
\* exited with a non-zero code, or no job id can be extracted from stdout.
ClaimInputsFail(op) ==
    \/ ~op.arg.ran
    \/ op.arg.outcome.kind = "raise"
    \/ op.arg.outcome.rc # 0
    \/ _extract_job_id(op.arg.outcome.stdout) = << >>

\* C30: every failing outcome of claim_workers returns success = false, and
\* a claim that returns success = false leaves active_jobs and
\* claimed_workers as they were before the call.
Thm_C30_FailedClaimChangesNothing ==
    [][lastOp'.op = "claim" =>
          /\ ClaimInputsFail(lastOp') => ~lastOp'.res.success
          /\ ~lastOp'.res.success =>
                 /\ ClaimInputsFail(lastOp')
                 /\ active_jobs' = active_jobs
                 /\ claimed_workers' = claimed_workers]_vars

\* A claim failed for want of a job id while a job and a worker were on
\* record.
Witness_C30 ==
    /\ lastOp.op = "claim"
    /\ ~lastOp.res.success
    /\ lastOp.arg.ran
    /\ lastOp.arg.outcome.kind = "exit"
    /\ lastOp.arg.outcome.rc = 0
    /\ DOMAIN active_jobs # {}
    /\ DOMAIN claimed_workers # {}


-----------------------------------------------------------------------------
(* Properties of the snapshot with a working store, checked under SpecStore *)

\* C33: with the store working in every call and no other writer, the ids
\* of the descriptors in the persisted list include every key of
\* claimed_workers.
Thm_C33_SnapshotCoversRegistry ==
    DOMAIN claimed_workers \subseteq SnapshotIds(config)

\* Two workers registered and a sweep evicted one of them: the other is in
\* the registry and in the persisted list, which still holds both.
Witness_C33 ==
    /\ SweepDone
    /\ Cardinality(DOMAIN claimed_workers) = 1
    /\ SnapshotIds(config) = WorkerIds


-----------------------------------------------------------------------------
(* The coordinator without the scheduler executable, checked under SpecJobs *)

\* What a register, heartbeat or unregister just processed must have done
\* to the registry and returned, whether or not the scheduler executable
\* was located.
RegistryCallWorked ==
    LET w == lastOp'.arg.worker_id
        present == w \in DOMAIN claimed_workers
    IN  CASE lastOp'.op = "register" ->
               /\ lastOp'.res = Ok
               /\ DOMAIN claimed_workers' = DOMAIN claimed_workers \cup {w}
               /\ claimed_workers'[w].ip = lastOp'.arg.ip
               /\ claimed_workers'[w].port = lastOp'.arg.port
               /\ claimed_workers'[w].last_seen = clock
               /\ w \in SnapshotIds(config')
          [] lastOp'.op = "heartbeat" ->
               /\ lastOp'.res = IF present THEN Ok ELSE NotFound
               /\ DOMAIN claimed_workers' = DOMAIN claimed_workers
               /\ present => claimed_workers'[w] = Refresh(claimed_workers[w], clock)
               /\ config' = config
          [] lastOp'.op = "unregister" ->
               /\ lastOp'.res = IF present THEN Ok ELSE NotFound
               /\ claimed_workers' = DictDel(claimed_workers, w)
               /\ w \in SnapshotIds(config') => ~present
          [] OTHER -> TRUE

\* C35: when the scheduler executable was not located, a status, a claim
\* and a release report 'Deadline not available', run no external command
\* and change nothing, so that a status leaves stale records in
\* claimed_workers; register, heartbeat and unregister do what they do
\* with the executable located.
Thm_C35_UnavailableChangesNothing ==
    [][/\ (~deadline_command /\ lastOp'.op \in {"status", "claim", "release"}) =>
             /\ lastOp'.res.error = ErrUnavailable
             /\ lastOp'.op = "status" => ~lastOp'.res.available
             /\ lastOp'.op \in {"claim", "release"} => ~lastOp'.res.success
             /\ lastOp'.op = "claim" =>
                    lastOp'.arg.submits = 0 /\ lastOp'.arg.files = NoFiles
             /\ lastOp'.op = "release" => lastOp'.calls = << >>
             /\ UNCHANGED <<claimed_workers, active_jobs, config, clock, deadline_command>>
       /\ lastOp'.op \in {"register", "heartbeat", "unregister"} =>
             /\ RegistryCallWorked
             /\ UNCHANGED <<active_jobs, clock, deadline_command>>]_vars

\* A status has just reported unavailability and a record as old as the
\* timeout is still in claimed_workers.
Witness_C35 ==
    /\ ~deadline_command
    /\ lastOp.op = "status"
    /\ ~lastOp.res.available
    /\ \E w \in DOMAIN claimed_workers :
           clock - claimed_workers[w].last_seen >= worker_heartbeat_timeout


-----------------------------------------------------------------------------
(* What each operation leaves alone, checked under SpecJobs *)

\* C36: a register, a heartbeat, an unregister and a status leave
\* active_jobs as it was; a claim leaves claimed_workers and the persisted
\* list as they were.
Thm_C36_OperationsKeepToTheirOwnMap ==
    [][/\ lastOp'.op \in {"register", "heartbeat", "unregister", "status"} =>
             active_jobs' = active_jobs
       /\ lastOp'.op = "claim" =>
             /\ claimed_workers' = claimed_workers
             /\ config' = config]_vars

\* A worker has just registered under a provisioning job that is on
\* record, and the record of the job is still there.
Witness_C36 ==
    /\ lastOp.op = "register"
    /\ claimed_workers[lastOp.arg.worker_id].job_id \in DOMAIN active_jobs
    /\ DOMAIN config # {}


-----------------------------------------------------------------------------
(* The heartbeat thread against a coordinator kept busy, checked under    *)
(* SpecComposed                                                           *)

\* C31: with the heartbeat thread posting every 30 s, the timeout at 60 s
\* and every heartbeat reaching the coordinator, a worker that registered
\* and whose process lives is in claimed_workers in every state: no status
\* sweep evicts it, whatever claims and releases keep the coordinator from
\* the waiting heartbeats and status requests.
Orig_C31_LiveWorkerNeverEvicted ==
    \A p \in WorkerProcs :
        (worker[p].reg = "registered" /\ worker[p].threads > 0) =>
            p \in DOMAIN claimed_workers

====
